---- MODULE Spec2Model ----
(***************************************************************************)
(* A model of the fitting core of PyXRF:                                   *)
(*   - the process-pool dispatch of fit_spectrum.py                        *)
(*     (fit_pixel_multiprocess_nnls, fit_pixel_multiprocess_nonlinear,     *)
(*     fit_data_multi_files);                                              *)
(*   - fitting_admm, normalize_data_by_scaler and grid_interpolate of      *)
(*     utils.py;                                                           *)
(*   - get_branching_ratio, calculate_area, bin_data_spacial,              *)
(*     get_cutted_spectrum_in3D, single_pixel_fitting_controller,          *)
(*     save_fitdata_to_hdf and fit_pixel_data_and_save of fit_spectrum.py; *)
(*   - get_fit_data of fileio.py;                                          *)
(*   - Fit1D.fit_multiple of fit_spectrum.py and save_data_to_hdf5;        *)
(*   - SecondaryWindow.position_once of useful_widgets.py and              *)
(*     PreviewPlotCount.update_map_range of tab_wd_plots_preview.py.       *)
(* Each part is a state machine of its own over its own variables; the     *)
(* specifications SpecPool, SpecAdmm, SpecNorm, SpecGrid, SpecBr,          *)
(* SpecArea, SpecBin, SpecCut, SpecCtl, SpecHdf, SpecFps, SpecFm, SpecSd,  *)
(* SpecSw and SpecPp run one part each.                                    *)
(***************************************************************************)
EXTENDS Integers, Sequences, FiniteSets, TLC

VARIABLES
    \* ---- process pool (fit_spectrum.py) ----
    fn,                     \* the pool function being executed, "none" when idle
    exp_data,               \* the items to fit: the rows of the cube, or the files
    has_xrange,             \* whether the interpreter defines the builtin xrange
    num_processors_to_use,  \* multiprocessing.cpu_count()
    pool,                   \* state of the multiprocessing.Pool object
    result_pool,            \* the AsyncResult handles, in dispatch order
    worker,                 \* worker process -> index of the task it runs, 0 when idle
    results,                \* the list the parent collects into
    pc,                     \* position of the parent in the pool function
    raised,                 \* the exception that left the pool function, "none"
    completion,             \* history: task indices in the order they finished
    \* ---- fitting_admm (utils.py) ----
    admm_pc,                \* position in fitting_admm
    admm,                   \* the frame of the call: arguments and local variables
    admm_ret,               \* what the call returned (w, convergence, feasibility)
    admm_msg,               \* the message of the AssertionError raised, if any
    \* ---- normalize_data_by_scaler (utils.py) ----
    norm_pc,                \* position in normalize_data_by_scaler
    heap,                   \* the arrays that exist: reference -> array (references 1, 2, ...)
    norm,                   \* the frame of the call: arguments and local variables
    norm_ret,               \* the reference the call returned
    \* ---- grid_interpolate (utils.py) ----
    grid_pc,                \* position in grid_interpolate
    gheap,                  \* the arrays that exist for grid_interpolate: reference -> array
    grid,                   \* the frame of the call: arguments and local variables
    grid_ret,               \* the tuple of references the call returned
    grid_exc,               \* the exception that left the call, "none"
    \* ---- get_branching_ratio (fit_spectrum.py) ----
    br_pc,                  \* position in get_branching_ratio
    br,                     \* the frame of the call: arguments, lookup table, locals
    br_ret,                 \* the ratio returned, numerator and denominator
    \* ---- calculate_area (fit_spectrum.py) ----
    area_pc,                \* position in calculate_area
    area,                   \* the frame of the call: arguments and locals
    result_map,             \* the dict calculate_area builds: name -> 2-D map
    \* ---- bin_data_spacial (fit_spectrum.py) ----
    bin_pc,                 \* position in bin_data_spacial
    bin,                    \* the frame of the call: arguments and locals
    bin_ret,                \* what the call returned
    \* ---- get_cutted_spectrum_in3D (fit_spectrum.py) ----
    cut_pc,                 \* position in get_cutted_spectrum_in3D
    cut,                    \* the frame of the call: arguments and locals
    cut_ret,                \* what the call returned: x, data, [lowv, highv]
    \* ---- single_pixel_fitting_controller ----
    ctl_pc,                 \* position in the controller
    ctl,                    \* its arguments and locals
    ctl_ret,                \* (result_map, calculation_info) returned
    \* ---- save_fitdata_to_hdf, get_fit_data ----
    hdf_pc,                 \* position in save_fitdata_to_hdf
    hdf_group,              \* the group at datapath in the file
    hdf,                    \* arguments and locals of the save
    hdf_saves,              \* calls made so far
    hdf_read,               \* what get_fit_data returned
    \* ---- fit_pixel_data_and_save ----
    fps_pc,                 \* position in fit_pixel_data_and_save
    fps,                    \* its arguments and loop index
    fps_calls,              \* the controller calls made, in order
    \* ---- Fit1D.fit_multiple (fit_spectrum.py) ----
    fm_pc,                  \* position in fit_multiple
    fit_strategy,           \* the members fit_strategy1..5, 0 where no value was assigned
    fm_slots,               \* the members fit_strategyN that hold a value
    all_strategy,           \* the OrderedDict: sequence of items (k: step of key 'strategyk', v: value)
    param_dict,             \* the fitting parameters: the strategies they were refined with
    fm_iter,                \* index of the item the loop of fit_multiple is at
    fm_log,                 \* history: the fits of the last call of fit_multiple
    fm_calls,               \* number of calls of fit_multiple
    \* ---- save_data_to_hdf5 ----
    sd_pc,                  \* position in save_data_to_hdf5
    sd,                     \* the frame of the call: arguments, the path and the mode chosen
    sd_files,               \* the directory: name -> file (0 is fpath, k is <base>_v<k>.h5)
    sd_exc,                 \* the exception that left the call, "none"
    sd_calls,               \* history: the calls made, each with the directory it found
    \* ---- SecondaryWindow.position_once (useful_widgets.py) ----
    never_positioned,       \* SecondaryWindow._never_positioned
    sw_pos,                 \* the position of the window on the screen, <<x, y>>
    sw_calls,               \* history: the calls of position_once, each with the position before and after
    \* ---- PreviewPlotCount.update_map_range (tab_wd_plots_preview.py) ----
    widget_range,           \* the range held by the RangeManager self.range, <<low, high>>
    gpc_map_range,          \* the range last given to gpc.set_preview_map_range
    gpc_dataset_range,      \* what gpc.get_dataset_preview_count_map_range() returns
    pp_last,                \* history: the last call of update_map_range, ranges before and after
    pp_run,                 \* history: the ranges found by the calls of the current run of expanding calls
    pp_count                \* number of calls of update_map_range

poolVars == <<fn, exp_data, has_xrange, num_processors_to_use, pool, result_pool,
              worker, results, pc, raised, completion>>

admmVars == <<admm_pc, admm, admm_ret, admm_msg>>

normVars == <<norm_pc, heap, norm, norm_ret>>

gridVars == <<grid_pc, gheap, grid, grid_ret, grid_exc>>

brVars == <<br_pc, br, br_ret>>

areaVars == <<area_pc, area, result_map>>

binVars == <<bin_pc, bin, bin_ret>>

cutVars == <<cut_pc, cut, cut_ret>>

ctlVars == <<ctl_pc, ctl, ctl_ret>>

hdfVars == <<hdf_pc, hdf_group, hdf, hdf_saves, hdf_read>>

fpsVars == <<fps_pc, fps, fps_calls>>

fmVars == <<fm_pc, fit_strategy, fm_slots, all_strategy, param_dict, fm_iter, fm_log, fm_calls>>

sdVars == <<sd_pc, sd, sd_files, sd_exc, sd_calls>>

swVars == <<never_positioned, sw_pos, sw_calls>>

ppVars == <<widget_range, gpc_map_range, gpc_dataset_range, pp_last, pp_run, pp_count>>

vars == <<poolVars, admmVars, normVars, gridVars, brVars, areaVars, binVars, cutVars, ctlVars, hdfVars, fpsVars, fmVars, sdVars, swVars, ppVars>>

(***************************************************************************)
(*                       PROCESS POOL (fit_spectrum.py)                    *)
(***************************************************************************)

\* Bounds of the pool model.
MaxRows == 3        \* rows of the cube / files of the batch: 0..MaxRows
MaxWorkers == 2     \* cpu_count() ranges over 1..MaxWorkers

NNLS == "fit_pixel_multiprocess_nnls"
NONLINEAR == "fit_pixel_multiprocess_nonlinear"
MULTI_FILES == "fit_data_multi_files"
ROI_SUM == "roi_sum_multi_files"
PoolFunctions == {NNLS, NONLINEAR, MULTI_FILES, ROI_SUM}

\* The spectra a pixel can hold are "s1", "s2", "sNoConv" and "sRaise":
\* "sNoConv" is a spectrum on which the
\* nonlinear optimizer does not converge (lmfit returns, without error
\* bars); "sRaise" is one on which the solver raises.
\* Rows of pixels (the second axis of the cube), a representative choice.
RowSet == { <<"s1", "s2">>, <<"s2", "s1">>, <<"s1", "sNoConv">>, <<"sRaise", "s1">> }

\* An item handed to one task: a row exp_data[n, :, :], or the file of id m
\* (which may be missing from the directory; `data` is then irrelevant).
RowItems == { [exists |-> TRUE, data |-> r] : r \in RowSet }
FileItems == { [exists |-> TRUE, data |-> <<"s1", "s2">>],
               [exists |-> TRUE, data |-> <<"s2", "s1">>],
               [exists |-> FALSE, data |-> << >>] }

Items(f) == IF f \in {MULTI_FILES, ROI_SUM} THEN FileItems ELSE RowItems

SeqsUpTo(S, n) == UNION { [1..k -> S] : k \in 0..n }

\* The solver applied to one pixel.  The solvers (scipy nnls, lmfit.minimize,
\* linear_spectrum_fitting) are external: the result is the uninterpreted
\* value <<method, spectrum>>; a nonlinear fit that did not converge has no
\* standard errors (stderr is None).
FitPixel(f, s) ==
    [value |-> <<f, s>>,
     err   |-> IF f = NONLINEAR
               THEN (IF s = "sNoConv" THEN "None" ELSE "stderr")
               ELSE "absent"]

PixelRaises(s) == s = "sRaise"

\* The exception a task's function raises on `item`, "none" when it returns.
\*   fit_pixel_fast: h5py.File on a missing file raises OSError; the pixel
\*   loops use xrange, a NameError where the builtin does not exist.
\*   roi_sum_calculation: h5py.File on a missing file raises OSError.
\*   fit_per_line_nnls / fit_pixel_nonlinear_per_line: no try/except around
\*   the solver call, so a solver error leaves the function.
TaskException(f, item, xr) ==
    IF f \in {MULTI_FILES, ROI_SUM} /\ ~item.exists THEN "OSError"
    ELSE IF f = MULTI_FILES /\ ~xr /\ Len(item.data) > 0 THEN "NameError"
    ELSE IF \E i \in 1..Len(item.data) : PixelRaises(item.data[i]) THEN "RuntimeError"
    ELSE "none"

\* The value a task's function returns on `item` (one entry per pixel).
TaskValue(f, item) == [i \in 1..Len(item.data) |-> FitPixel(f, item.data[i])]

NoValue == << >>

\* An AsyncResult handle.
Handle(st, exc, val) == [state |-> st, exc |-> exc, value |-> val]

\* The pool's actions leave the other parts alone.
PoolOnly == UNCHANGED <<admmVars, normVars, gridVars, brVars, areaVars, binVars, cutVars, ctlVars, hdfVars, fpsVars, fmVars, sdVars, swVars, ppVars>>

InitPool ==
    /\ fn = "none"
    /\ exp_data = << >>
    /\ has_xrange = TRUE
    /\ num_processors_to_use = 0
    /\ pool = "none"
    /\ result_pool = << >>
    /\ worker = << >>
    /\ results = << >>
    /\ pc = "idle"
    /\ raised = "none"
    /\ completion = << >>

\* A call of one of the pool functions; pool = multiprocessing.Pool(cpu_count()).
PoolCall(f, items, ncpu, xr) ==
    /\ PoolOnly
    /\ pc = "idle"
    /\ fn' = f
    /\ exp_data' = items
    /\ has_xrange' = xr
    /\ num_processors_to_use' = ncpu
    /\ pool' = "open"
    /\ worker' = [w \in 1..ncpu |-> 0]
    /\ result_pool' = << >>
    /\ results' = << >>
    /\ completion' = << >>
    /\ raised' = "none"
    /\ pc' = "dispatch"

\* One pool.apply_async of the list comprehension: task n is queued, its
\* handle appended to result_pool.
ApplyAsync ==
    /\ PoolOnly
    /\ pc = "dispatch"
    /\ Len(result_pool) < Len(exp_data)
    /\ result_pool' = Append(result_pool, Handle("queued", "none", NoValue))
    /\ UNCHANGED <<fn, exp_data, has_xrange, num_processors_to_use, pool, worker,
                   results, pc, raised, completion>>

\* The list comprehension is exhausted; results = [].
DispatchDone ==
    /\ PoolOnly
    /\ pc = "dispatch"
    /\ Len(result_pool) = Len(exp_data)
    /\ pc' = "collect"
    /\ UNCHANGED <<fn, exp_data, has_xrange, num_processors_to_use, pool, result_pool,
                   worker, results, raised, completion>>

\* The pool's task queue is first-in first-out: an idle worker takes the
\* oldest queued task.
OldestQueued == CHOOSE n \in 1..Len(result_pool) :
                    /\ result_pool[n].state = "queued"
                    /\ \A m \in 1..(n-1) : result_pool[m].state /= "queued"

WorkerTake(w) ==
    /\ PoolOnly
    /\ pool = "open"
    /\ worker[w] = 0
    /\ \E n \in 1..Len(result_pool) : result_pool[n].state = "queued"
    /\ worker' = [worker EXCEPT ![w] = OldestQueued]
    /\ result_pool' = [result_pool EXCEPT ![OldestQueued].state = "running"]
    /\ UNCHANGED <<fn, exp_data, has_xrange, num_processors_to_use, pool, results,
                   pc, raised, completion>>

\* A worker finishes its task: the handle becomes ready, holding the value
\* returned or the exception raised by the task's function.
WorkerFinish(w) ==
    /\ PoolOnly
    /\ pool = "open"
    /\ worker[w] /= 0
    /\ LET n == worker[w]
           exc == TaskException(fn, exp_data[n], has_xrange)
       IN  /\ result_pool' = [result_pool EXCEPT ![n] =
                 Handle("ready", exc,
                        IF exc = "none" THEN TaskValue(fn, exp_data[n]) ELSE NoValue)]
           /\ completion' = Append(completion, n)
    /\ worker' = [worker EXCEPT ![w] = 0]
    /\ UNCHANGED <<fn, exp_data, has_xrange, num_processors_to_use, pool, results,
                   pc, raised>>

\* A collection loop that takes the handles as they become ready (what
\* imap_unordered would do) instead of in dispatch order.
NextHandleByCompletion ==
    IF Len(completion) > Len(results) THEN completion[Len(results) + 1]
    ELSE Len(results) + 1

\* The handle the parent waits on next: `for r in result_pool` walks the
\* handles in dispatch order.
NextHandle == Len(results) + 1

\* results.append(r.get()): blocks until handle r is ready; get() re-raises
\* in the parent the exception the task raised, and nothing catches it.
Get ==
    /\ PoolOnly
    /\ pc = "collect"
    /\ Len(results) < Len(result_pool)
    /\ LET r == result_pool[NextHandle]
       IN  /\ r.state = "ready"
           /\ IF r.exc = "none"
              THEN /\ results' = Append(results, r.value)
                   /\ UNCHANGED <<pc, raised>>
              ELSE /\ pc' = "raised"
                   /\ raised' = r.exc
                   /\ UNCHANGED results
    /\ UNCHANGED <<fn, exp_data, has_xrange, num_processors_to_use, pool, result_pool,
                   worker, completion>>

\* pool.terminate(), after the last handle was collected.
Terminate ==
    /\ PoolOnly
    /\ pc = "collect"
    /\ Len(results) = Len(result_pool)
    /\ pool' = "terminated"
    /\ pc' = "join"
    /\ UNCHANGED <<fn, exp_data, has_xrange, num_processors_to_use, result_pool,
                   worker, results, raised, completion>>

\* pool.join(); return results.
JoinAndReturn ==
    /\ PoolOnly
    /\ pc = "join"
    /\ pool' = "joined"
    /\ pc' = "returned"
    /\ UNCHANGED <<fn, exp_data, has_xrange, num_processors_to_use, result_pool,
                   worker, results, raised, completion>>

NextPool ==
    \/ /\ pc = "idle"
       /\ \E f \in PoolFunctions, ncpu \in 1..MaxWorkers, xr \in BOOLEAN :
            \E items \in SeqsUpTo(Items(f), MaxRows) :
               /\ (f /= MULTI_FILES => xr)
               /\ PoolCall(f, items, ncpu, xr)
    \/ ApplyAsync
    \/ DispatchDone
    \/ \E w \in 1..num_processors_to_use : WorkerTake(w)
    \/ \E w \in 1..num_processors_to_use : WorkerFinish(w)
    \/ Get
    \/ Terminate
    \/ JoinAndReturn

(***************************************************************************)
(*                       Claims about the process pool                     *)
(***************************************************************************)

RowFit == fn \in {NNLS, NONLINEAR}

\* C1: when fit_pixel_multiprocess_nnls / _nonlinear returns, the result has
\* exactly one entry per input row and entry i is the fit of row i, whatever
\* the order in which the workers finished and however many workers ran.
C1_RowOrderPreserved ==
    (RowFit /\ pc = "returned") =>
        /\ Len(results) = Len(exp_data)
        /\ \A i \in 1..Len(exp_data) : results[i] = TaskValue(fn, exp_data[i])

\* C1 witness: a call over at least two different rows has returned although
\* a later row finished before an earlier one.
C1_Witness ==
    /\ RowFit /\ pc = "returned"
    /\ \E i, j \in 1..Len(exp_data) : exp_data[i] /= exp_data[j]
    /\ \E a, b \in 1..Len(completion) : a < b /\ completion[a] > completion[b]

\* C2: the failure of one pixel's fit is contained: the call does not raise,
\* and when it returns every pixel of every row has an entry, the pixels whose
\* fit did not fail holding their fitted result.
C2_PixelFailureContained ==
    RowFit =>
        /\ pc /= "raised"
        /\ (pc = "returned" =>
              \A i \in 1..Len(exp_data) :
                 /\ Len(results[i]) = Len(exp_data[i].data)
                 /\ \A j \in 1..Len(exp_data[i].data) :
                       ~PixelRaises(exp_data[i].data[j]) =>
                           results[i][j].value = <<fn, exp_data[i].data[j]>>)

\* C2 witness: a row fit over a cube with a pixel on which the solver raises
\* has ended with the solver's exception leaving the call; no result exists.
C2_Witness ==
    /\ RowFit /\ pc = "raised" /\ raised = "RuntimeError"
    /\ \E i \in 1..Len(exp_data) : \E j \in 1..Len(exp_data[i].data) :
          PixelRaises(exp_data[i].data[j])
    /\ \E i \in 1..Len(exp_data) : \A j \in 1..Len(exp_data[i].data) :
          ~PixelRaises(exp_data[i].data[j])

\* C3: in a batch over files, a missing file is skipped: the batch does not
\* raise.  (Stated where xrange exists, so that a missing file is the only
\* failure a file can have.)
C3_MissingFileSkipped ==
    (fn = MULTI_FILES /\ has_xrange) => pc /= "raised"

\* C3 witness: a batch holding a missing file and an existing one has ended
\* with OSError leaving fit_data_multi_files.
C3_Witness ==
    /\ fn = MULTI_FILES /\ has_xrange
    /\ pc = "raised" /\ raised = "OSError"
    /\ \E i, j \in 1..Len(exp_data) : ~exp_data[i].exists /\ exp_data[j].exists



\* C27: the pool a call created is terminated and joined when control
\* returns to the caller, by a return or by an exception of a task
\* re-raised in the parent; and a pool is terminated only after the result
\* of every dispatched task was collected.
C27_PoolTerminatedAndJoined ==
    /\ pc \in {"returned", "raised"} => pool = "joined"
    /\ pool \in {"terminated", "joined"} =>
          (Len(result_pool) = Len(exp_data) /\ Len(results) = Len(result_pool))

\* C27 witness: the exception of a task has left the call while the pool
\* is open and another task of it is still running.
C27_Witness ==
    /\ pc = "raised" /\ pool = "open"
    /\ \E n \in 1..Len(result_pool) : result_pool[n].state = "running"

\* The parts of C27 that hold: a call that returns has terminated and
\* joined its pool, and no pool is terminated before every result was
\* collected.
PoolJoinedOnReturn ==
    /\ pc = "returned" => pool = "joined"
    /\ pool \in {"terminated", "joined"} =>
          (Len(result_pool) = Len(exp_data) /\ Len(results) = Len(result_pool))

(***************************************************************************)
(*                          fitting_admm (utils.py)                        *)
(***************************************************************************)

\* Bounds of the ADMM model.
MaxIter == 3        \* the argument maxiter ranges over 0..MaxIter

\* ---- numbers ----
\* A rational number is a pair <<n, d>> with d > 0.  The arguments rate and
\* epsilon are rationals.  The iterates are exact too: the matrices w, u and x
\* hold integer numerators over the common denominator admm.den.
Positive(q) == q[1] > 0

RECURSIVE SumSeq(_)
SumSeq(s) == IF Len(s) = 0 THEN 0 ELSE s[1] + SumSeq(Tail(s))

RECURSIVE ProdSeq(_)
ProdSeq(s) == IF Len(s) = 0 THEN 1 ELSE s[1] * ProdSeq(Tail(s))

Front(s) == SubSeq(s, 1, Len(s) - 1)

\* ---- matrices: sequences of rows ----
NRows(M) == Len(M)
NCols(M) == IF Len(M) = 0 THEN 0 ELSE Len(M[1])

Matrix(nr, nc, v) == [r \in 1..nr |-> [k \in 1..nc |-> v]]

Transpose(M) == [k \in 1..NCols(M) |-> [r \in 1..NRows(M) |-> M[r][k]]]

MatMul(P, Q) ==
    [r \in 1..NRows(P) |->
        [k \in 1..NCols(Q) |-> SumSeq([m \in 1..NCols(P) |-> P[r][m] * Q[m][k]])]]

MatAdd(P, Q) == [r \in 1..NRows(P) |-> [k \in 1..NCols(P) |-> P[r][k] + Q[r][k]]]
MatScale(P, a) == [r \in 1..NRows(P) |-> [k \in 1..NCols(P) |-> P[r][k] * a]]
Eye(n) == [r \in 1..n |-> [k \in 1..n |-> IF r = k THEN 1 ELSE 0]]

\* Squared Frobenius norm of a matrix of nr x nc entries: np.linalg.norm(P) ** 2.
NormSq(P, nr, nc) == SumSeq([r \in 1..nr |-> SumSeq([k \in 1..nc |-> P[r][k] * P[r][k]])])

\* Determinant and adjugate of a 1x1 or 2x2 matrix: inv(M) = Adj(M) / Det(M).
Det(M) == IF NRows(M) = 1 THEN M[1][1]
          ELSE M[1][1] * M[2][2] - M[1][2] * M[2][1]
Adj(M) == IF NRows(M) = 1 THEN << <<1>> >>
          ELSE << <<M[2][2], -M[1][2]>>, <<-M[2][1], M[1][1]>> >>

\* ---- n-dimensional arrays ----
\* An array is [shape, val]: val maps every index tuple (0-based, as in
\* numpy) to the entry there.
RECURSIVE MaxSeq(_)
MaxSeq(s) == IF Len(s) = 0 THEN 0
             ELSE IF s[1] > MaxSeq(Tail(s)) THEN s[1] ELSE MaxSeq(Tail(s))

Indices(shape) ==
    { t \in [1..Len(shape) -> 0..(MaxSeq(shape) - 1)] : \A k \in 1..Len(shape) : t[k] < shape[k] }

\* Position of index tuple idx in the row-major (C order) flattening of an
\* array of shape dims, and the tuple at flat position j.
RECURSIVE RavelC(_, _)
RavelC(idx, dims) ==
    IF Len(idx) = 0 THEN 0
    ELSE RavelC(Front(idx), Front(dims)) * dims[Len(dims)] + idx[Len(idx)]

RECURSIVE UnravelC(_, _)
UnravelC(j, dims) ==
    IF Len(dims) = 0 THEN << >>
    ELSE Append(UnravelC(j \div dims[Len(dims)], Front(dims)), j % dims[Len(dims)])

\* The column-major (Fortran order) position, which numpy does not use here.
RECURSIVE RavelF(_, _)
RavelF(idx, dims) ==
    IF Len(idx) = 0 THEN 0
    ELSE idx[1] + dims[1] * RavelF(Tail(idx), Tail(dims))

\* ---- the inputs the model draws from ----
\* Reference matrices (n_pts x n_refs), and one array that is not 2-D.
RefSet == { [shape |-> <<2, 1>>, a |-> << <<1>>, <<1>> >>],
            [shape |-> <<2, 2>>, a |-> << <<1, 1>>, <<0, 1>> >>],
            [shape |-> <<2>>,    a |-> << <<1>>, <<1>> >>] }

\* The spectrum of one pixel, by the length of the first axis of data.
PixelSpectra(n) == IF n = 2 THEN { <<1, 1>>, <<2, 0>>, <<-1, -1>> }
                   ELSE { [p \in 1..n |-> 1] }

\* Shapes of data without the first axis: a single point, a row of pixels,
\* an image.
DataDims == { << >>, <<2>>, <<2, 2>> }

\* The data array of first-axis length n and image shape dims in which pixel
\* idx holds spectrum px[idx].
DataArray(n, dims, px) ==
    [shape |-> <<n>> \o dims,
     val   |-> [t \in Indices(<<n>> \o dims) |-> px[Tail(t)][t[1] + 1]]]

DataSet == UNION { { DataArray(n, dims, px) : px \in [Indices(dims) -> PixelSpectra(n)] }
                   : n \in {1, 2}, dims \in DataDims }

RateSet == { <<1, 1>>, <<1, 2>>, <<0, 1>>, <<-1, 2>> }
EpsilonSet == { <<1, 2>>, <<1, 4>>, <<0, 1>> }
MaxIterSet == 0..MaxIter

\* ---- string conversions used by the assertion messages ----
\* format(q, ".6g") and str(q) of a float, str(n) of an int, on the values
\* the model draws.
FormatG(q) == CASE q = <<1, 1>> -> "1" [] q = <<1, 2>> -> "0.5" [] q = <<1, 4>> -> "0.25"
                [] q = <<0, 1>> -> "0" [] q = <<-1, 2>> -> "-0.5" [] q = <<-1, 1>> -> "-1"
StrFloat(q) == CASE q = <<1, 1>> -> "1.0" [] q = <<1, 2>> -> "0.5" [] q = <<1, 4>> -> "0.25"
                [] q = <<0, 1>> -> "0.0" [] q = <<-1, 2>> -> "-0.5" [] q = <<-1, 1>> -> "-1.0"
StrInt(n) == CASE n = -1 -> "-1" [] n = 0 -> "0" [] n = 1 -> "1" [] n = 2 -> "2"
               [] n = 3 -> "3" [] n = 4 -> "4" [] OTHER -> "int"

NoMsg == [about |-> "none", shown |-> <<>>]

\* The assertions with the one on maxiter left out.
AssertionFailureNoMaxiter(data, ref_spectra, rate, maxiter, epsilon) ==
    IF Len(ref_spectra.shape) /= 2
    THEN [about |-> "ref_spectra.ndim", shown |-> <<>>]
    ELSE IF data.shape[1] /= ref_spectra.shape[1]
    THEN [about |-> "n_pts", shown |-> <<StrInt(data.shape[1]), StrInt(ref_spectra.shape[1])>>]
    ELSE IF ~Positive(rate)
    THEN [about |-> "rate", shown |-> <<FormatG(rate)>>]
    ELSE IF ~Positive(epsilon)
    THEN [about |-> "epsilon", shown |-> <<FormatG(rate)>>]
    ELSE NoMsg

\* The assertions of fitting_admm, in program order: the message of the first
\* one that fails (what it is about and the values it formats), NoMsg when all
\* pass.
AssertionFailure(data, ref_spectra, rate, maxiter, epsilon) ==
    IF Len(ref_spectra.shape) /= 2
    THEN [about |-> "ref_spectra.ndim", shown |-> <<>>]
    ELSE IF data.shape[1] /= ref_spectra.shape[1]
    THEN [about |-> "n_pts", shown |-> <<StrInt(data.shape[1]), StrInt(ref_spectra.shape[1])>>]
    ELSE IF ~Positive(rate)
    THEN [about |-> "rate", shown |-> <<FormatG(rate)>>]
    ELSE IF ~(maxiter > 0)
    THEN [about |-> "maxiter", shown |-> <<StrFloat(rate)>>]
    ELSE IF ~Positive(epsilon)
    THEN [about |-> "epsilon", shown |-> <<FormatG(rate)>>]
    ELSE NoMsg

\* ---- the computation ----
\* data_1D: the data as a (n_pts x n_pixels) matrix.
\*   no image axis   : np.expand_dims(data, axis=1)
\*   several axes    : np.reshape(data, [n_pts, prod(data_dims)]), row-major
\*   one axis        : data itself
Data1D(data) ==
    LET n_pts == data.shape[1]
        data_dims == Tail(data.shape)
    IN  IF Len(data_dims) = 0
        THEN [p \in 1..n_pts |-> <<data.val[<<p - 1>>]>>]
        ELSE IF Len(data_dims) > 1
        THEN [p \in 1..n_pts |->
                [j \in 1..ProdSeq(data_dims) |->
                    data.val[<<p - 1>> \o UnravelC(j - 1, data_dims)]]]
        ELSE [p \in 1..n_pts |-> [j \in 1..data_dims[1] |-> data.val[<<p - 1, j - 1>>]]]

\* m1 = np.linalg.inv(c + dg), dg = eye(n_refs) * rate, kept exact:
\* with rate = rn/rd and M = c*rd + rn*I,  m1 = rd * Adj(M) / Det(M).
Inverse(c, rate) ==
    LET M == MatAdd(MatScale(c, rate[2]), MatScale(Eye(NRows(c)), rate[1]))
    IN  [adj |-> Adj(M), det |-> Det(M)]

\* w_updated.clip(min=0) without the clipping.
NoClip(P, nr, nc) == P

\* w_updated.clip(min=0), on a matrix of nr x nc entries
Clip(P, nr, nc) == [r \in 1..nr |-> [k \in 1..nc |-> IF P[r][k] < 0 THEN 0 ELSE P[r][k]]]

\* conv < epsilon, for conv = norm(w_updated - w) / norm(w_updated) given by
\* the squares num2, den2 of the two norms.  A zero norm(w_updated) makes
\* conv inf or nan, and the comparison false.
ConvBelow(num2, den2, epsilon) ==
    /\ den2 > 0
    /\ num2 * epsilon[2] * epsilon[2] < epsilon[1] * epsilon[1] * den2

\* One pass of the loop body on the iterate st = [w, u, den] (numerators over
\* den).  The result is over den * m1.det.
\*     m2 = z + (w-u) * rate;  x = matmul(m1, m2)
\*     w_updated = (x + u).clip(min=0);  u = u + x - w_updated
AdmmStep(st, z, m1, rate) ==
    LET nr == NRows(z)
        nc == NCols(z)
        m2 == [r \in 1..nr |-> [k \in 1..nc |->
                  z[r][k] * st.den * rate[2] + (st.w[r][k] - st.u[r][k]) * rate[1]]]
        x == [r \in 1..nr |-> [k \in 1..nc |->
                  SumSeq([m \in 1..nr |-> m1.adj[r][m] * m2[m][k]])]]
        xu == [r \in 1..nr |-> [k \in 1..nc |-> x[r][k] + st.u[r][k] * m1.det]]
        w_updated == Clip(xu, nr, nc)
        dw == [r \in 1..nr |-> [k \in 1..nc |-> w_updated[r][k] - st.w[r][k] * m1.det]]
        xw == [r \in 1..nr |-> [k \in 1..nc |-> x[r][k] - w_updated[r][k]]]
    IN  [w    |-> w_updated,
         u    |-> [r \in 1..nr |-> [k \in 1..nc |-> xu[r][k] - w_updated[r][k]]],
         x    |-> x,
         den  |-> st.den * m1.det,
         conv |-> [num2 |-> NormSq(dw, nr, nc), den2 |-> NormSq(w_updated, nr, nc)],
         feas |-> [num2 |-> NormSq(xw, nr, nc),
                   den2 |-> (st.den * m1.det) * (st.den * m1.det)]]

\* np.reshape in column-major order.
ReshapeBackF(w, n_refs, data_dims) ==
    [shape |-> <<n_refs>> \o data_dims,
     val   |-> [t \in Indices(<<n_refs>> \o data_dims) |->
                   w[t[1] + 1][RavelF(Tail(t), data_dims) + 1]]]

\* The returned weights, in the dimensionality of data:
\*   no image axis : np.squeeze(w, axis=1)
\*   several axes  : np.reshape(w, np.insert(data_dims, 0, n_refs)), row-major
\*   one axis      : w itself
ReshapeBack(w, n_refs, data_dims) ==
    [shape |-> <<n_refs>> \o data_dims,
     val   |-> [t \in Indices(<<n_refs>> \o data_dims) |->
                   IF Len(data_dims) = 0 THEN w[t[1] + 1][1]
                   ELSE IF Len(data_dims) > 1
                   THEN w[t[1] + 1][RavelC(Tail(t), data_dims) + 1]
                   ELSE w[t[1] + 1][t[2] + 1]]]

ZeroTrace == [num2 |-> 0, den2 |-> 1]

NoArray == [shape |-> << >>, val |-> << >>]

NoFrame ==
    [data |-> NoArray, ref_spectra |-> [shape |-> << >>, a |-> << >>],
     rate |-> <<0, 1>>, maxiter |-> 0, epsilon |-> <<0, 1>>,
     n_pts |-> 0, data_dims |-> << >>, n_refs |-> 0, n_pixels |-> 0,
     y |-> << >>, z |-> << >>, c |-> << >>, m1 |-> [adj |-> << >>, det |-> 1],
     w |-> << >>, u |-> << >>, x |-> << >>, den |-> 1,
     convergence |-> << >>, feasibility |-> << >>,
     n_iter |-> 0, i |-> 0, iters |-> 0]

NoReturn == [w |-> NoArray, den |-> 1, convergence |-> << >>, feasibility |-> << >>]

AdmmOnly == UNCHANGED <<poolVars, normVars, gridVars, brVars, areaVars, binVars, cutVars, ctlVars, hdfVars, fpsVars, fmVars, sdVars, swVars, ppVars>>

InitAdmm ==
    /\ admm_pc = "idle"
    /\ admm = NoFrame
    /\ admm_ret = NoReturn
    /\ admm_msg = NoMsg

\* fitting_admm(data, ref_spectra, rate=, maxiter=, epsilon=) is called.
AdmmCall(data, ref_spectra, rate, maxiter, epsilon) ==
    /\ AdmmOnly
    /\ admm_pc = "idle"
    /\ admm' = [NoFrame EXCEPT !.data = data, !.ref_spectra = ref_spectra,
                               !.rate = rate, !.maxiter = maxiter, !.epsilon = epsilon]
    /\ admm_pc' = "check"
    /\ UNCHANGED <<admm_ret, admm_msg>>

\* The assertions: the first that fails raises AssertionError.
AdmmCheck ==
    /\ AdmmOnly
    /\ admm_pc = "check"
    /\ LET msg == AssertionFailure(admm.data, admm.ref_spectra, admm.rate,
                                   admm.maxiter, admm.epsilon)
       IN  /\ admm_msg' = msg
           /\ admm_pc' = IF msg = NoMsg THEN "setup" ELSE "failed"
    /\ admm' = IF Len(admm.ref_spectra.shape) = 2
               THEN [admm EXCEPT !.n_pts = admm.data.shape[1],
                                 !.data_dims = Tail(admm.data.shape),
                                 !.n_refs = admm.ref_spectra.shape[2]]
               ELSE admm
    /\ UNCHANGED admm_ret

\* Everything between the assertions and the loop.
AdmmSetup ==
    /\ AdmmOnly
    /\ admm_pc = "setup"
    /\ LET y == Data1D(admm.data)
           A == admm.ref_spectra.a
           At == Transpose(A)
           c == MatMul(At, A)
           n_pixels == NCols(y)
       IN  admm' = [admm EXCEPT
                      !.n_pixels = n_pixels,
                      !.y = y,
                      !.z = MatMul(At, y),
                      !.c = c,
                      !.w = Matrix(admm.n_refs, n_pixels, 1),
                      !.u = Matrix(admm.n_refs, n_pixels, 0),
                      !.den = 1,
                      !.convergence = [k \in 1..admm.maxiter |-> ZeroTrace],
                      !.feasibility = [k \in 1..admm.maxiter |-> ZeroTrace],
                      !.m1 = Inverse(c, admm.rate),
                      !.n_iter = 0]
    /\ admm_pc' = IF admm.maxiter > 0 THEN "loop" ELSE "finish"
    /\ UNCHANGED <<admm_ret, admm_msg>>

\* One pass of `for i in range(maxiter)`, with the break when conv < epsilon.
\* admm.iters counts the passes made, so this pass has i = admm.iters.
AdmmIterate ==
    /\ AdmmOnly
    /\ admm_pc = "loop"
    /\ LET i == admm.iters
           s == AdmmStep([w |-> admm.w, u |-> admm.u, den |-> admm.den],
                         admm.z, admm.m1, admm.rate)
           stop == ConvBelow(s.conv.num2, s.conv.den2, admm.epsilon)
       IN  /\ admm' = [admm EXCEPT
                         !.i = i,
                         !.x = s.x, !.u = s.u, !.w = s.w, !.den = s.den,
                         !.convergence[i + 1] = s.conv,
                         !.feasibility[i + 1] = s.feas,
                         !.n_iter = IF stop THEN i + 1 ELSE admm.n_iter,
                         !.iters = i + 1]
           /\ admm_pc' = IF stop \/ i + 1 >= admm.maxiter THEN "finish" ELSE "loop"
    /\ UNCHANGED <<admm_ret, admm_msg>>

\* After the loop: w in the caller's dimensionality, the traces cut to n_iter.
AdmmReturn ==
    /\ AdmmOnly
    /\ admm_pc = "finish"
    /\ admm_ret' = [w           |-> ReshapeBack(admm.w, admm.n_refs, admm.data_dims),
                    den         |-> admm.den,
                    convergence |-> SubSeq(admm.convergence, 1, admm.n_iter),
                    feasibility |-> SubSeq(admm.feasibility, 1, admm.n_iter)]
    /\ admm_pc' = "returned"
    /\ UNCHANGED <<admm, admm_msg>>

NextAdmm ==
    \/ /\ admm_pc = "idle"
       /\ \E data \in DataSet, ref_spectra \in RefSet, rate \in RateSet,
             maxiter \in MaxIterSet, epsilon \in EpsilonSet :
               AdmmCall(data, ref_spectra, rate, maxiter, epsilon)
    \/ AdmmCheck
    \/ AdmmSetup
    \/ AdmmIterate
    \/ AdmmReturn

(***************************************************************************)
(*                        Claims about fitting_admm                        *)
(***************************************************************************)

\* C4: the returned convergence and feasibility traces have one entry per
\* iteration executed, a number between 1 and maxiter, whether or not the
\* convergence threshold was reached.
C4_TraceLength ==
    admm_pc = "returned" =>
        /\ Len(admm_ret.convergence) = admm.iters
        /\ Len(admm_ret.feasibility) = admm.iters
        /\ 1 <= admm.iters /\ admm.iters <= admm.maxiter

\* C4 witness: a call has returned after maxiter iterations, none of which
\* reached the threshold, and the traces it returned are empty.
C4_Witness ==
    /\ admm_pc = "returned"
    /\ admm.iters = admm.maxiter /\ admm.maxiter >= 1
    /\ admm.n_iter = 0
    /\ admm_ret.convergence = << >> /\ admm_ret.feasibility = << >>

\* The arguments violate a precondition of fitting_admm.
BadArguments ==
    \/ Len(admm.ref_spectra.shape) /= 2
    \/ admm.data.shape[1] /= admm.ref_spectra.shape[1]
    \/ admm.rate[1] <= 0
    \/ admm.maxiter <= 0
    \/ admm.epsilon[1] <= 0

\* Nothing has been computed: no matrix product, no inverse, no iteration.
NothingComputed ==
    /\ admm.y = << >> /\ admm.z = << >> /\ admm.c = << >>
    /\ admm.m1 = NoFrame.m1
    /\ admm.w = << >> /\ admm.u = << >>
    /\ admm.iters = 0

\* C5: when a precondition is violated the call fails with an assertion
\* before any matrix product, inversion or iteration, and returns nothing.
C5_FailsBeforeComputing ==
    (admm_pc \notin {"idle", "check"} /\ BadArguments) =>
        /\ admm_pc = "failed"
        /\ admm_msg /= NoMsg
        /\ NothingComputed
        /\ admm_ret = NoReturn

\* C5 witness: a call with a valid rate and a non-positive maxiter has failed.
C5_Witness ==
    /\ admm_pc = "failed"
    /\ admm.rate[1] > 0 /\ admm.maxiter <= 0
    /\ admm_msg.about = "maxiter"

\* C6: the message of a rejected rate, maxiter or epsilon shows the value of
\* the rejected parameter.
C6_MessageNamesValue ==
    admm_pc = "failed" =>
        /\ (admm_msg.about = "rate" => admm_msg.shown = <<FormatG(admm.rate)>>)
        /\ (admm_msg.about = "maxiter" => admm_msg.shown = <<StrInt(admm.maxiter)>>)
        /\ (admm_msg.about = "epsilon" => admm_msg.shown = <<FormatG(admm.epsilon)>>)

\* C6 witness: maxiter was rejected and the message shows the value of rate,
\* which is not the text of maxiter.
C6_Witness ==
    /\ admm_pc = "failed" /\ admm_msg.about = "maxiter"
    /\ admm_msg.shown = <<StrFloat(admm.rate)>>
    /\ admm_msg.shown /= <<StrInt(admm.maxiter)>>

\* C7: every entry of w is >= 0 at the start of the loop, after every
\* iteration and in the returned weights.
C7_WeightsNonNegative ==
    /\ (admm_pc \in {"loop", "finish", "returned"} =>
          /\ admm.den > 0
          /\ \A r \in 1..admm.n_refs : \A k \in 1..admm.n_pixels : admm.w[r][k] >= 0)
    /\ (admm_pc = "returned" =>
          /\ admm_ret.den > 0
          /\ \A t \in DOMAIN admm_ret.w.val : admm_ret.w.val[t] >= 0)

\* C7 witness: a call on data with negative entries has returned, and the
\* clipping acted in its last iteration (x + u was negative somewhere, which
\* leaves u negative there).
C7_Witness ==
    /\ admm_pc = "returned"
    /\ \E t \in DOMAIN admm.data.val : admm.data.val[t] < 0
    /\ \E r \in 1..admm.n_refs : \E k \in 1..admm.n_pixels : admm.u[r][k] < 0

\* The weights of one pixel after k iterations, computed from that pixel's
\* spectrum alone.
\* (Rebuilt entry by entry after each pass, which changes no value and keeps
\* the evaluation of k passes linear in k.)
RECURSIVE EntryByEntry(_, _)
EntryByEntry(f, n) == IF n = 0 THEN << >> ELSE Append(EntryByEntry(f, n - 1), f[n])

Column(M, nr) == EntryByEntry([r \in 1..nr |-> <<M[r][1]>>], nr)

RECURSIVE IterN(_, _, _, _, _)
IterN(st, z, m1, rate, k) ==
    IF k = 0 THEN st
    ELSE LET s == AdmmStep(st, z, m1, rate)
         IN  IterN([w |-> Column(s.w, NRows(z)), u |-> Column(s.u, NRows(z)), den |-> s.den],
                   z, m1, rate, k - 1)

PixelWeights(spectrum, k) ==
    LET A == admm.ref_spectra.a
        y1 == [p \in 1..Len(spectrum) |-> <<spectrum[p]>>]
        z1 == MatMul(Transpose(A), y1)
        st0 == [w |-> Matrix(NCols(A), 1, 1), u |-> Matrix(NCols(A), 1, 0), den |-> 1]
    IN  IterN(st0, z1, Inverse(MatMul(Transpose(A), A), admm.rate), admm.rate, k).w

\* C8: the returned weights have the shape of data with the first axis
\* replaced by n_refs, and the weights at pixel index idx are the ones
\* computed from the spectrum data[:, idx].
C8_ShapePreserved ==
    admm_pc = "returned" =>
        LET dims == Tail(admm.data.shape)
            n_refs == admm.ref_spectra.shape[2]
        IN  /\ admm_ret.w.shape = <<n_refs>> \o dims
            /\ DOMAIN admm_ret.w.val = Indices(<<n_refs>> \o dims)
            /\ \A idx \in Indices(dims) :
                  LET pw == PixelWeights([p \in 1..admm.data.shape[1] |->
                                             admm.data.val[<<p - 1>> \o idx]],
                                         admm.iters)
                  IN  \A r \in 1..n_refs :
                         admm_ret.w.val[<<r - 1>> \o idx] = pw[r][1]

\* C8 witness: an image (two pixel axes) was fitted, and two pixels that are
\* each other's transpose got different weights.
C8_Witness ==
    /\ admm_pc = "returned"
    /\ Len(admm.data.shape) = 3
    /\ admm_ret.w.val[<<0, 0, 1>>] /= admm_ret.w.val[<<0, 1, 0>>]

(***************************************************************************)
(*                   normalize_data_by_scaler (utils.py)                   *)
(***************************************************************************)

\* Bound of the normalization model.
MaxLen == 3         \* arrays hold 1..MaxLen entries

\* ---- numbers ----
\* An array entry is [n, d, e], the number (n / d) * 10^e with d > 0, or, with
\* d = 0, the result of a division by zero (n > 0: inf, n < 0: -inf, n = 0:
\* nan).  The entries of one input array share one e: 0 for values of
\* ordinary size, -11 for values around the threshold 1e-10.
Num(n, e) == [n |-> n, d |-> 1, e |-> e]
Zero == Num(0, 0)
IsZero(v) == v.n = 0 /\ v.d /= 0
Abs(k) == IF k < 0 THEN -k ELSE k
Sign(k) == IF k < 0 THEN -1 ELSE IF k > 0 THEN 1 ELSE 0

\* np.abs(v) < 1e-10.  For e = -11 this is |n| / d < 10.  For e = 0 it is
\* |n| * 10^10 < d, which no n /= 0 satisfies, d being at most an array size.
AbsBelowThreshold(v) == IF v.e = -11 THEN Abs(v.n) < 10 * v.d ELSE v.n = 0

\* The literals 1e-10 and -1e-10.
PlusThreshold == [n |-> 10, d |-> 1, e |-> -11]
MinusThreshold == [n |-> -10, d |-> 1, e |-> -11]

\* The value v as stored into an array of the given dtype.  Storing into an
\* integer array truncates toward zero; a magnitude below 1 becomes 0.
Stored(v, dtype) ==
    IF dtype = "float64" THEN v
    ELSE IF v.e = -11 THEN Zero
    ELSE Num(Sign(v.n) * (Abs(v.n) \div v.d), 0)


\* a / b, elementwise true division (the result is a float).
Quotient(a, b) ==
    IF b.n = 0 THEN [n |-> Sign(a.n), d |-> 0, e |-> 0]
    ELSE [n |-> a.n * b.d * Sign(b.n), d |-> a.d * Abs(b.n), e |-> a.e - b.e]

\* ---- arrays and references ----
\* An array is [dtype, shape, val], val the entries in row-major order.
\* A reference is a position in heap; None is the reference 0.
None == 0

Array(dtype, shape, val) == [dtype |-> dtype, shape |-> shape, val |-> val]

Size(arr) == Len(arr.val)

\* np.count_nonzero(scaler)
CountNonzero(arr) == Cardinality({ k \in 1..Size(arr) : ~IsZero(arr.val[k]) })

\* np.mean(scaler[scaler != 0])
MeanNonzero(arr) ==
    LET nz == { k \in 1..Size(arr) : ~IsZero(arr.val[k]) }
    IN  [n |-> SumSeq([k \in 1..Size(arr) |-> IF k \in nz THEN arr.val[k].n ELSE 0]),
         d |-> Cardinality(nz),
         e |-> arr.val[CHOOSE k \in nz : TRUE].e]

\* s_mean after "if np.abs(s_mean) < 1e-10: s_mean = 1e-10 if np.sign(s_mean) >= 0 else -1e-10"
Clamped(s_mean) ==
    IF AbsBelowThreshold(s_mean)
    THEN (IF Sign(s_mean.n) >= 0 THEN PlusThreshold ELSE MinusThreshold)
    ELSE s_mean

\* scaler = scaler.copy(); scaler[scaler == 0.0] = s_mean
ZerosReplaced(arr, s_mean) ==
    [arr EXCEPT !.val = [k \in 1..Size(arr) |->
        IF IsZero(arr.val[k]) THEN Stored(s_mean, arr.dtype) ELSE arr.val[k]]]

\* data_in / scaler
Divided(a, b) ==
    Array("float64", a.shape, [k \in 1..Size(a) |-> Quotient(a.val[k], b.val[k])])

\* ---- the inputs the model draws from ----
Shapes == { <<k>> : k \in 1..MaxLen } \cup { <<1, MaxLen>> }

SizeOf(shape) == ProdSeq(shape)

\* Scalers: float arrays of ordinary values, float arrays of values around
\* 1e-10, integer arrays.
ScalerArrays ==
    UNION { { Array("float64", sh, v) : v \in [1..SizeOf(sh) -> { Num(k, 0) : k \in {-1, 0, 2} }] }
            \cup { Array("float64", sh, v) :
                      v \in [1..SizeOf(sh) -> { Num(k, -11) : k \in {-5, 0, 20} }] }
            \cup { Array("int64", sh, v) : v \in [1..SizeOf(sh) -> { Num(k, 0) : k \in {-1, 0, 2} }] }
            : sh \in Shapes }

\* Data: one float array per shape, with entries 1, 2, ...
DataArrays == { Array("float64", sh, [k \in 1..SizeOf(sh) |-> Num(k, 0)]) : sh \in Shapes }

\* data_name: None or a name.  name_not_scalable: None or a list of names.
NoName == "None"
DataNames == { NoName, "time", "Fe_K" }
NoList == [is_none |-> TRUE, names |-> << >>]
NameLists == { NoList, [is_none |-> FALSE, names |-> <<"time", "i0_time">>] }

InList(name, list) == \E k \in 1..Len(list.names) : list.names[k] = name

\* ---- the function ----
\* The outcome of a call: the heap it leaves, the reference it returns, and
\* the reference of the divisor it divided by (None if it did not divide).
Outcome(h, ret, divisor) == [heap |-> h, ret |-> ret, divisor |-> divisor]

\* A result that is a new array holding the entries of data_in.
FreshCopy(h, data_in) ==
    IF data_in = None THEN Outcome(h, None, None)
    ELSE Outcome(Append(h, h[data_in]), Len(h) + 1, None)

\* "return data_in" and "data_out = data_in": the result is the argument.
SameObject(h, data_in) == Outcome(h, data_in, None)

\* The heap after the zeros of the scaler are replaced in the array itself.
ReplacedInPlace(h, scaler, s_mean) ==
    Append([h EXCEPT ![scaler] = ZerosReplaced(h[scaler], s_mean)],
           ZerosReplaced(h[scaler], s_mean))

\* "scaler = scaler.copy(); scaler[scaler == 0.0] = s_mean": the heap with
\* the new array at its end.
ReplacedInCopy(h, scaler, s_mean) == Append(h, ZerosReplaced(h[scaler], s_mean))

\* The body of normalize_data_by_scaler on heap h.
Normalize(h, data_in, scaler, data_name, name_not_scalable) ==
    IF data_in = None \/ scaler = None THEN SameObject(h, data_in)
    ELSE IF h[data_in].shape /= h[scaler].shape THEN SameObject(h, data_in)
    ELSE
    LET do_scaling_1 == \/ name_not_scalable.is_none
                        \/ data_name = NoName
                        \/ ~InList(data_name, name_not_scalable)
        n_nonzero == CountNonzero(h[scaler])
        do_scaling == IF n_nonzero = 0 THEN FALSE ELSE do_scaling_1
    IN  IF ~do_scaling THEN SameObject(h, data_in)
        ELSE IF Size(h[data_in]) /= n_nonzero
        THEN LET s_mean == Clamped(MeanNonzero(h[scaler]))
                 h1 == ReplacedInCopy(h, scaler, s_mean)
                 scaler_1 == Len(h1)
                 h2 == Append(h1, Divided(h1[data_in], h1[scaler_1]))
             IN  Outcome(h2, Len(h2), scaler_1)
        ELSE LET h2 == Append(h, Divided(h[data_in], h[scaler]))
             IN  Outcome(h2, Len(h2), scaler)

NoCall == [data_in |-> None, scaler |-> None, data_name |-> NoName,
           name_not_scalable |-> NoList, heap |-> << >>, divisor |-> None]

NormOnly == UNCHANGED <<poolVars, admmVars, gridVars, brVars, areaVars, binVars, cutVars, ctlVars, hdfVars, fpsVars, fmVars, sdVars, swVars, ppVars>>

InitNorm ==
    /\ norm_pc = "idle"
    /\ heap = << >>
    /\ norm = NoCall
    /\ norm_ret = None

\* The caller builds its arrays and calls
\* normalize_data_by_scaler(data_in, scaler, data_name=..., name_not_scalable=...).
\* An argument that is None takes no place in the heap.
NormCall(d, s, data_name, name_not_scalable) ==
    /\ NormOnly
    /\ norm_pc = "idle"
    /\ LET h == d \o s
           data_in == IF d = << >> THEN None ELSE 1
           scaler == IF s = << >> THEN None ELSE Len(h)
       IN  /\ heap' = h
           /\ norm' = [data_in |-> data_in, scaler |-> scaler, data_name |-> data_name,
                       name_not_scalable |-> name_not_scalable, heap |-> h,
                       divisor |-> None]
    /\ norm_pc' = "called"
    /\ norm_ret' = None

\* The function runs to its return statement.
NormReturn ==
    /\ NormOnly
    /\ norm_pc = "called"
    /\ LET out == Normalize(heap, norm.data_in, norm.scaler, norm.data_name,
                            norm.name_not_scalable)
       IN  /\ heap' = out.heap
           /\ norm_ret' = out.ret
           /\ norm' = [norm EXCEPT !.divisor = out.divisor]
    /\ norm_pc' = "returned"

NextNorm ==
    \/ /\ norm_pc = "idle"
       /\ \E d \in {<< >>} \cup { <<a>> : a \in DataArrays },
             s \in {<< >>} \cup { <<a>> : a \in ScalerArrays },
             data_name \in DataNames, name_not_scalable \in NameLists :
             NormCall(d, s, data_name, name_not_scalable)
    \/ NormReturn

\* ---- claims about normalize_data_by_scaler ----

\* The arrays as the caller passed them.
ArgData == norm.heap[norm.data_in]
ArgScaler == norm.heap[norm.scaler]

\* The cases in which normalization is skipped.
ScalerIsNone == norm.scaler = None
ShapesDiffer == norm.data_in /= None /\ norm.scaler /= None /\ ArgData.shape /= ArgScaler.shape
ScalerAllZeros == norm.scaler /= None /\ \A k \in 1..Size(ArgScaler) : IsZero(ArgScaler.val[k])
NameNotScalable ==
    /\ norm.data_name /= NoName
    /\ ~norm.name_not_scalable.is_none
    /\ \E k \in 1..Len(norm.name_not_scalable.names) :
          norm.name_not_scalable.names[k] = norm.data_name
Skipped == ScalerIsNone \/ ShapesDiffer \/ ScalerAllZeros \/ NameNotScalable

\* C9: whenever normalization is skipped (scaler is None, the shapes differ,
\* the scaler holds only zeros, or data_name is listed in name_not_scalable),
\* the call returns the very reference it received as data_in, and it has
\* created no array.
C9_SameObjectWhenSkipped ==
    (norm_pc = "returned" /\ Skipped) => (norm_ret = norm.data_in /\ heap = norm.heap)

\* C9 witness: a call with an all-zero scaler of data_in's shape has returned
\* data_in; so has a call whose data_name is listed as not scalable while the
\* scaler would otherwise have been applied.
C9_Witness ==
    /\ norm_pc = "returned"
    /\ norm.data_in /= None
    /\ norm_ret = norm.data_in
    /\ ~ScalerIsNone /\ ~ShapesDiffer
    /\ \/ ScalerAllZeros
       \/ NameNotScalable /\ CountNonzero(ArgScaler) = Size(ArgScaler)

\* C10: whenever the division is performed, every entry of the divisor is
\* nonzero: a nonzero entry of the scaler is used as it is, and a zero entry
\* is replaced by the mean of the nonzero entries, or by +1e-10 / -1e-10 (by
\* the sign of the mean) when the magnitude of the mean is below 1e-10.
C10_DivisorNonZero ==
    (norm_pc = "returned" /\ norm.divisor /= None) =>
        LET used == heap[norm.divisor]
            mean == MeanNonzero(ArgScaler)
            fill == IF ~AbsBelowThreshold(mean) THEN mean
                    ELSE IF mean.n >= 0 THEN PlusThreshold ELSE MinusThreshold
        IN  \A k \in 1..Size(ArgScaler) :
               /\ ~IsZero(used.val[k])
               /\ ~IsZero(ArgScaler.val[k]) => used.val[k] = ArgScaler.val[k]
               /\ IsZero(ArgScaler.val[k]) => used.val[k] = fill

\* The statement of C10 restricted to scalers that are float arrays.
FloatDivisorNonZero ==
    (norm_pc = "returned" /\ norm.divisor /= None /\ ArgScaler.dtype = "float64") =>
        LET used == heap[norm.divisor]
            mean == MeanNonzero(ArgScaler)
            fill == IF ~AbsBelowThreshold(mean) THEN mean
                    ELSE IF mean.n >= 0 THEN PlusThreshold ELSE MinusThreshold
        IN  \A k \in 1..Size(ArgScaler) :
               /\ ~IsZero(used.val[k])
               /\ ~IsZero(ArgScaler.val[k]) => used.val[k] = ArgScaler.val[k]
               /\ IsZero(ArgScaler.val[k]) => used.val[k] = fill

\* C10 witness: an integer scaler with a zero entry was divided by, and the
\* divisor still holds a zero: the replacement value lost its fraction when
\* it was stored into the integer copy.
C10_Witness ==
    /\ norm_pc = "returned" /\ norm.divisor /= None
    /\ ArgScaler.dtype = "int64"
    /\ \E k \in 1..Size(ArgScaler) : IsZero(heap[norm.divisor].val[k])
    /\ \E k \in 1..Size(ArgScaler) : heap[norm_ret].val[k].d = 0

\* The division was performed: the call returned a normalized array.
Normalized == norm_pc = "returned" /\ norm.divisor /= None

\* C30: a call never modifies an array the caller passed: every array of
\* the caller's heap, data_in and scaler among them, holds after the return
\* what it held at the call, in every branch; where zeros of the scaler
\* were replaced the divisor is a new array, and a normalized result is a
\* new array, not data_in.
C30_InputsNotModified ==
    norm_pc = "returned" =>
        /\ Len(heap) >= Len(norm.heap)
        /\ \A ref \in 1..Len(norm.heap) : heap[ref] = norm.heap[ref]
        /\ Normalized =>
              /\ norm_ret > Len(norm.heap)
              /\ norm_ret /= norm.data_in
              /\ (CountNonzero(ArgScaler) /= Size(ArgData)) => norm.divisor > Len(norm.heap)

\* C30 witness: a call with a scaler holding a zero and a nonzero entry has
\* normalized: the divisor and the result are new arrays and the scaler
\* still holds its zero.
C30_Witness ==
    /\ Normalized
    /\ CountNonzero(ArgScaler) /= Size(ArgData)
    /\ norm.divisor > Len(norm.heap)
    /\ norm_ret > norm.divisor
    /\ \E k \in 1..Size(ArgScaler) : IsZero(heap[norm.scaler].val[k])

(***************************************************************************)
(*                       grid_interpolate (utils.py)                       *)
(***************************************************************************)

\* Bound of the grid model.
MaxGrid == 2        \* coordinate arrays have 1..MaxGrid rows and columns

\* A 2-D array is [shape, val, den, how]: val holds the numerators of the
\* entries in row-major order over the common denominator den; how tells
\* what produced the array ("given": passed by the caller).
Grid(shape, val, den, how) == [shape |-> shape, val |-> val, den |-> den, how |-> how]

At(arr, r, c) == arr.val[(r - 1) * arr.shape[2] + c]

GridShapes == { <<ny, nx>> : ny \in 1..MaxGrid, nx \in 1..MaxGrid }

\* A shape different from sh.
OtherShape(sh) == <<sh[1] + 1, sh[2]>>

\* Measured X coordinates: growing (or falling) along a row, with a small
\* drift from row to row.  Y coordinates likewise along a column.
XCoords(sh) ==
    { Grid(sh, [k \in 1..(sh[1] * sh[2]) |->
                   dir * 4 * ((k - 1) % sh[2]) + drift * ((k - 1) \div sh[2])], 1, "given")
      : dir \in {1, -1}, drift \in {0, 1} }
YCoords(sh) ==
    { Grid(sh, [k \in 1..(sh[1] * sh[2]) |->
                   dir * 4 * ((k - 1) \div sh[2]) + drift * ((k - 1) % sh[2])], 1, "given")
      : dir \in {1, -1}, drift \in {0, 1} }
Values(sh) == Grid(sh, [k \in 1..(sh[1] * sh[2]) |-> 10 + k], 1, "given")

\* An optional array argument: << >> stands for None, <<a>> for the array a.
Optional(sh) == { << >>, <<Values(sh)>>, <<Values(OtherShape(sh))>> }

\* Twice np.median of a sequence of integers.
Median2(s) ==
    LET t == SortSeq(s, LAMBDA a, b : a < b)
        n == Len(t)
    IN  IF n % 2 = 1 THEN 2 * t[(n + 1) \div 2] ELSE t[n \div 2] + t[n \div 2 + 1]

GridRow(vv, r) == [c \in 1..vv.shape[2] |-> At(vv, r, c)]
GridCol(vv, c) == [r \in 1..vv.shape[1] |-> At(vv, r, c)]

\* _get_range(vv): twice (vv_min, vv_max).
GetRange2(vv) ==
    LET ny == vv.shape[1]
        nx == vv.shape[2]
    IN  IF Abs(At(vv, 1, 1) - At(vv, 1, nx)) > Abs(At(vv, 1, 1) - At(vv, ny, 1))
        THEN <<Median2(GridCol(vv, 1)), Median2(GridCol(vv, nx))>>
        ELSE <<Median2(GridRow(vv, 1)), Median2(GridRow(vv, ny))>>

\* np.mgrid[y_min:y_max:ny*1j, x_min:x_max:nx*1j]: ny x nx arrays whose
\* entries run evenly from the minimum to the maximum along their axis.
\* (Only reached with ny, nx > 1.)
MGridX(sh, rng2) ==
    Grid(sh, [k \in 1..(sh[1] * sh[2]) |->
                 rng2[1] * (sh[2] - 1) + ((k - 1) % sh[2]) * (rng2[2] - rng2[1])],
         2 * (sh[2] - 1), "mgrid")
MGridY(sh, rng2) ==
    Grid(sh, [k \in 1..(sh[1] * sh[2]) |->
                 rng2[1] * (sh[1] - 1) + ((k - 1) \div sh[2]) * (rng2[2] - rng2[1])],
         2 * (sh[1] - 1), "mgrid")

\* arr.flatten(): a new 1-D array (here 1 x size) with the same entries.
Flatten(arr) == Grid(<<1, Len(arr.val)>>, arr.val, arr.den, "flatten")

\* scipy.interpolate.griddata(xxyy, data, (xx_uniform, yy_uniform), ...): an
\* external routine; its result has the shape of xx_uniform, its values are
\* left uninterpreted.
GridData(xx_uniform) == Grid(xx_uniform.shape, << >>, 1, "griddata")

\* The first check of grid_interpolate that fails, "none" if all pass.
\* The fourth check reads xx_uniform.shape where yy_uniform is meant.
GridCheckFailure(h, data, xx, yy, xx_uniform, yy_uniform) ==
    IF data /= None /\ h[data].shape /= h[xx].shape THEN "ValueError: data"
    ELSE IF h[xx].shape /= h[yy].shape THEN "ValueError: yy"
    ELSE IF xx_uniform /= None /\ h[xx_uniform].shape /= h[xx].shape
    THEN "ValueError: xx_uniform"
    ELSE IF yy_uniform /= None
    THEN (IF xx_uniform = None THEN "AttributeError"
          ELSE IF h[xx_uniform].shape /= h[xx].shape THEN "ValueError: yy_uniform"
          ELSE "none")
    ELSE "none"

\* "(nx <= 1) or (ny <= 1)": a single row or a single column.
Degenerate(shape) == shape[2] <= 1 \/ shape[1] <= 1

NoGridCall == [data |-> None, xx |-> None, yy |-> None, xx_uniform |-> None,
               yy_uniform |-> None, heap |-> << >>]
NoGridReturn == << >>

GridOnly == UNCHANGED <<poolVars, admmVars, normVars, brVars, areaVars, binVars, cutVars, ctlVars, hdfVars, fpsVars, fmVars, sdVars, swVars, ppVars>>

InitGrid ==
    /\ grid_pc = "idle"
    /\ gheap = << >>
    /\ grid = NoGridCall
    /\ grid_ret = NoGridReturn
    /\ grid_exc = "none"

\* The caller builds its arrays and calls
\* grid_interpolate(data, xx, yy, xx_uniform, yy_uniform).
GridCall(d, x, y, xu, yu) ==
    /\ GridOnly
    /\ grid_pc = "idle"
    /\ LET h == <<x, y>> \o d \o xu \o yu
           ref_d == IF d = << >> THEN None ELSE 3
           ref_xu == IF xu = << >> THEN None ELSE 2 + Len(d) + 1
           ref_yu == IF yu = << >> THEN None ELSE 2 + Len(d) + Len(xu) + 1
       IN  /\ gheap' = h
           /\ grid' = [data |-> ref_d, xx |-> 1, yy |-> 2, xx_uniform |-> ref_xu,
                       yy_uniform |-> ref_yu, heap |-> h]
    /\ grid_pc' = "check"
    /\ grid_ret' = NoGridReturn
    /\ grid_exc' = "none"

\* The shape checks: the call raises or goes on.
GridCheck ==
    /\ GridOnly
    /\ grid_pc = "check"
    /\ LET failure == GridCheckFailure(gheap, grid.data, grid.xx, grid.yy,
                                       grid.xx_uniform, grid.yy_uniform)
       IN  /\ grid_exc' = failure
           /\ grid_pc' = IF failure = "none" THEN "checked" ELSE "raised"
    /\ UNCHANGED <<gheap, grid, grid_ret>>

\* "if (nx <= 1) or (ny <= 1): return data, xx, yy"
GridSkip ==
    /\ GridOnly
    /\ grid_pc = "checked"
    /\ Degenerate(gheap[grid.xx].shape)
    /\ grid_ret' = <<grid.data, grid.xx, grid.yy>>
    /\ grid_pc' = "returned"
    /\ UNCHANGED <<gheap, grid, grid_exc>>

\* np.stack((xx, yy)).T for flattened xx, yy: one (x, y) pair per point.
StackT(xx, yy) ==
    Grid(<<Len(xx.val), 2>>,
         [k \in 1..(2 * Len(xx.val)) |->
             IF k % 2 = 1 THEN xx.val[(k + 1) \div 2] ELSE yy.val[k \div 2]],
         1, "stack")

\* The rest of the function for a grid of at least 2 x 2 points: the uniform
\* axes are generated where not supplied, the data are interpolated.
GridInterpolate ==
    /\ GridOnly
    /\ grid_pc = "checked"
    /\ ~Degenerate(gheap[grid.xx].shape)
    /\ LET sh == gheap[grid.xx].shape
           generate == grid.xx_uniform = None \/ grid.yy_uniform = None
           h1 == IF generate
                 THEN gheap \o <<MGridY(sh, GetRange2(gheap[grid.yy])),
                                 MGridX(sh, GetRange2(gheap[grid.xx]))>>
                 ELSE gheap
           yy_uniform == IF grid.yy_uniform = None THEN Len(gheap) + 1 ELSE grid.yy_uniform
           xx_uniform == IF grid.xx_uniform = None THEN Len(gheap) + 2 ELSE grid.xx_uniform
           xx_flat == Flatten(h1[grid.xx])
           yy_flat == Flatten(h1[grid.yy])
           h2 == h1 \o <<xx_flat, yy_flat, StackT(xx_flat, yy_flat)>>
           h3 == IF grid.data /= None
                 THEN h2 \o <<Flatten(h2[grid.data]), GridData(h2[xx_uniform])>>
                 ELSE h2
           data_uniform == IF grid.data /= None THEN Len(h3) ELSE None
       IN  /\ gheap' = h3
           /\ grid_ret' = <<data_uniform, xx_uniform, yy_uniform>>
    /\ grid_pc' = "returned"
    /\ UNCHANGED <<grid, grid_exc>>

NextGrid ==
    \/ /\ grid_pc = "idle"
       /\ \E sh \in GridShapes :
          \E x \in XCoords(sh), y \in YCoords(sh) \cup YCoords(OtherShape(sh)),
             d \in Optional(sh), xu \in Optional(sh), yu \in Optional(sh) :
             GridCall(d, x, y, xu, yu)
    \/ GridCheck
    \/ GridSkip
    \/ GridInterpolate

\* ---- claims about grid_interpolate ----

\* The scan of the call has a single row or a single column, and the shapes
\* of data, xx and yy are consistent.
SingleLineScan ==
    /\ grid.xx /= None
    /\ Degenerate(grid.heap[grid.xx].shape)
    /\ grid.heap[grid.yy].shape = grid.heap[grid.xx].shape
    /\ grid.data /= None => grid.heap[grid.data].shape = grid.heap[grid.xx].shape

\* C11: a call on a single-row or single-column scan (shapes of data, xx, yy
\* consistent) ends by returning the very data, xx and yy it was passed, with
\* no array created or changed.
C11_DegenerateGridUnchanged ==
    (SingleLineScan /\ grid_pc \in {"raised", "returned"}) =>
        /\ grid_pc = "returned"
        /\ grid_ret = <<grid.data, grid.xx, grid.yy>>
        /\ gheap = grid.heap

\* C11 witness: a call on a single-row scan with consistent shapes, passing
\* yy_uniform alone, has ended with AttributeError.
C11_Witness ==
    /\ SingleLineScan /\ grid_pc = "raised"
    /\ grid.yy_uniform /= None /\ grid.xx_uniform = None
    /\ grid_exc = "AttributeError"

\* The statement of C11 for calls that pass neither xx_uniform nor yy_uniform.
DegenerateGridUnchangedByDefault ==
    (SingleLineScan /\ grid.xx_uniform = None /\ grid.yy_uniform = None
        /\ grid_pc \in {"raised", "returned"}) =>
        /\ grid_pc = "returned"
        /\ grid_ret = <<grid.data, grid.xx, grid.yy>>
        /\ gheap = grid.heap

\* The exceptions the shape checks raise by design.
GridValueErrors ==
    {"ValueError: data", "ValueError: yy", "ValueError: xx_uniform", "ValueError: yy_uniform"}

\* An argument of the call is given with a shape different from xx.
ShapeDiffers(ref) == ref /= None /\ grid.heap[ref].shape /= grid.heap[grid.xx].shape

\* C24: a call raises ValueError, with no array created, whenever data, yy,
\* a supplied xx_uniform or a supplied yy_uniform has a shape different from
\* xx, the last whether or not xx_uniform is supplied; and the validation
\* raises no exception of another kind.
C24_ShapeChecksRaiseValueError ==
    grid_pc \in {"raised", "checked", "returned"} =>
        /\ (ShapeDiffers(grid.data) \/ ShapeDiffers(grid.yy)
              \/ ShapeDiffers(grid.xx_uniform) \/ ShapeDiffers(grid.yy_uniform)) =>
                 (grid_pc = "raised" /\ grid_exc \in GridValueErrors /\ gheap = grid.heap)
        /\ grid_pc = "raised" => grid_exc \in GridValueErrors

\* C24 witness: a call passing xx_uniform of the shape of xx and yy_uniform of
\* another shape has passed the checks and returned.
C24_Witness ==
    /\ grid_pc = "returned"
    /\ grid.xx_uniform /= None /\ ~ShapeDiffers(grid.xx_uniform)
    /\ ShapeDiffers(grid.yy_uniform)
    /\ grid_exc = "none"

\* The statement of C24 without its part on yy_uniform: for calls that do
\* not pass yy_uniform.
ShapeChecksWithoutYyUniform ==
    (grid.yy_uniform = None /\ grid_pc \in {"raised", "checked", "returned"}) =>
        /\ (ShapeDiffers(grid.data) \/ ShapeDiffers(grid.yy) \/ ShapeDiffers(grid.xx_uniform)) =>
              (grid_pc = "raised" /\ grid_exc \in GridValueErrors /\ gheap = grid.heap)
        /\ grid_pc = "raised" => grid_exc \in GridValueErrors

(***************************************************************************)
(*                  get_branching_ratio (fit_spectrum.py)                  *)
(***************************************************************************)

\* Bounds of the branching-ratio model.
MaxLines == 3       \* a line group has 1..MaxLines transitions
MaxCs == 2          \* a cross-section is one of 0..MaxCs

\* The transitions a group can hold.
TransitionNames == <<"a1", "a2", "b1", "b2", "g1">>
Transitions == { TransitionNames[k] : k \in 1..MaxLines }

\* The orderings of the nonempty subsets of S: the lists a lookup table can
\* hold for a group.
Orderings(S) ==
    { t \in UNION { [1..k -> S] : k \in 1..Cardinality(S) } :
        \A i, j \in 1..Len(t) : i /= j => t[i] /= t[j] }

\* The lists holding the same transitions as t.
Reorderings(t) == { t2 \in Orderings({ t[k] : k \in 1..Len(t) }) : Len(t2) = Len(t) }

\* line.upper()
Upper(line) == IF line = "k" THEN "K" ELSE IF line = "l" THEN "L" ELSE line

\* elemental_line.split('_'): the model keeps elemental_line split already.
ElementalLines == { <<"Fe", "K">>, <<"Fe", "k">>, <<"Pt", "L">> }

\* TRANSITIONS_LOOKUP: group -> list of transitions.  The list of the other
\* group is fixed.
Lookup(group, t) == [g \in {"K", "L"} |-> IF g = group THEN t ELSE <<TransitionNames[1]>>]

\* The value of get_branching_ratio as <<numerator, denominator>>:
\* e.cs(energy)[transition_lines[0]] / sum of e.cs(energy)[v].
BranchingRatio(transition_lines, cs) ==
    <<cs[transition_lines[1]],
      SumSeq([k \in 1..Len(transition_lines) |-> cs[transition_lines[k]]])>>

NoBr == [elemental_line |-> <<"", "">>, lookup |-> Lookup("K", <<TransitionNames[1]>>),
         cs |-> [v \in Transitions |-> 0], transition_lines |-> << >>, sum_v |-> 0,
         k |-> 0]
NoRatio == <<0, 1>>
NaN == <<0, 0>>

BrOnly == UNCHANGED <<poolVars, admmVars, normVars, gridVars, areaVars, binVars, cutVars, ctlVars, hdfVars, fpsVars, fmVars, sdVars, swVars, ppVars>>

InitBr ==
    /\ br_pc = "idle"
    /\ br = NoBr
    /\ br_ret = NoRatio

\* get_branching_ratio(elemental_line, energy) is called; cs is what
\* Element(name).cs(energy) answers for each transition.
\*   name, line = elemental_line.split('_'); e = Element(name)
\*   transition_lines = TRANSITIONS_LOOKUP[line.upper()];  sum_v = 0
BrCall(elemental_line, lookup, cs) ==
    /\ BrOnly
    /\ br_pc = "idle"
    /\ br' = [elemental_line |-> elemental_line, lookup |-> lookup, cs |-> cs,
              transition_lines |-> lookup[Upper(elemental_line[2])], sum_v |-> 0, k |-> 0]
    /\ br_pc' = "loop"
    /\ br_ret' = NoRatio

\* One pass of "for v in transition_lines: sum_v += e.cs(energy)[v]".
BrAdd ==
    /\ BrOnly
    /\ br_pc = "loop"
    /\ br.k < Len(br.transition_lines)
    /\ br' = [br EXCEPT !.k = @ + 1,
                        !.sum_v = @ + br.cs[br.transition_lines[br.k + 1]]]
    /\ UNCHANGED <<br_pc, br_ret>>

\* ratio_v = e.cs(energy)[transition_lines[0]] / sum_v; return ratio_v.
\* With sum_v = 0 the division raises ZeroDivisionError (Python floats) or
\* yields nan (numpy floats), by the type the cross-section library answers.
BrDivide ==
    /\ BrOnly
    /\ br_pc = "loop"
    /\ br.k = Len(br.transition_lines)
    /\ \/ /\ br.sum_v /= 0
          /\ br_ret' = <<br.cs[br.transition_lines[1]], br.sum_v>>
          /\ br_pc' = "returned"
       \/ /\ br.sum_v = 0
          /\ br_ret' = NaN
          /\ br_pc' = "returned"
       \/ /\ br.sum_v = 0
          /\ br_ret' = NoRatio
          /\ br_pc' = "raised"
    /\ UNCHANGED br

NextBr ==
    \/ /\ br_pc = "idle"
       /\ \E elemental_line \in ElementalLines, t \in Orderings(Transitions),
             cs \in [Transitions -> 0..MaxCs] :
             BrCall(elemental_line, Lookup(Upper(elemental_line[2]), t), cs)
    \/ BrAdd
    \/ BrDivide

\* ---- claims about get_branching_ratio ----

\* a / b = c / d for fractions with positive denominators.
SameRatio(p, q) == p[2] /= 0 /\ q[2] /= 0 /\ p[1] * q[2] = q[1] * p[2]

\* The largest cross-section of the group.
Strongest(t, cs) == MaxSeq([k \in 1..Len(t) |-> cs[t[k]]])

\* C12: the call returns the cross-section of the strongest transition of
\* the group over the sum of the cross-sections of the group; the value lies
\* in (0, 1]; and the call on a lookup table holding the same transitions in
\* another order returns the same value.
C12_BranchingRatio ==
    br_pc \in {"returned", "raised"} =>
        /\ br_pc = "returned"
        /\ SameRatio(br_ret, <<Strongest(br.transition_lines, br.cs), br.sum_v>>)
        /\ 0 < br_ret[1] /\ br_ret[1] <= br_ret[2]
        /\ \A t2 \in Reorderings(br.transition_lines) :
              SameRatio(BranchingRatio(t2, br.cs), br_ret)

\* C12 witness: every transition of the group has a positive cross-section,
\* the first listed is not the strongest, and the call returned the ratio of
\* the first listed, which is not the ratio of the strongest.
C12_Witness ==
    /\ br_pc = "returned"
    /\ \A k \in 1..Len(br.transition_lines) : br.cs[br.transition_lines[k]] > 0
    /\ br.cs[br.transition_lines[1]] < Strongest(br.transition_lines, br.cs)
    /\ br_ret = <<br.cs[br.transition_lines[1]], br.sum_v>>
    /\ ~SameRatio(br_ret, <<Strongest(br.transition_lines, br.cs), br.sum_v>>)

(***************************************************************************)
(*                     calculate_area (fit_spectrum.py)                    *)
(***************************************************************************)

\* Bound of the area model.
MaxNames == 3       \* e_select holds 0..MaxNames names

\* Emission lines (members of K_LINE + L_LINE + M_LINE) and other columns.
EmissionLines == { "Fe_K", "Pt_L", "Au_M" }
AreaNames == { "Fe_K", "Pt_L", "compton", "Si_Ka1-Si_Ka1" }

\* Lists of different names of length 0..n over S.
NameListsUpTo(S, n) ==
    { t \in UNION { [1..k -> S] : k \in 0..n } :
        \A i, j \in 1..Len(t) : i /= j => t[i] /= t[j] }

\* Element(name).cs(energy) at the incident energy, which excites the lines.
CsOf(name) ==
    IF name = "Fe_K" THEN [v \in Transitions |-> IF v = TransitionNames[1] THEN 2 ELSE 1]
    ELSE [v \in Transitions |-> 1]

\* The transitions of the group of an emission line.
GroupLines(name) ==
    IF name = "Fe_K" THEN <<TransitionNames[1], TransitionNames[2]>>
    ELSE <<TransitionNames[1], TransitionNames[2], TransitionNames[3]>>

\* matv: n_channels x n_columns, a list of rows.  Two matrices with
\* different column sums.
AreaChannels == 2
MatvSet(n) ==
    { [ch \in 1..AreaChannels |-> [col \in 1..n |-> a * col + ch - 1]] : a \in {1, 2} }

\* results: rows x columns x (n + 2) coefficients, all entries different.
AreaRows == 1
AreaCols == 2
ResultsSet(n) ==
    { [r \in 1..AreaRows |-> [c \in 1..AreaCols |-> [i \in 1..(n + 2) |->
          s * (10 * c + i)]]] : s \in {1, -1} }

\* np.sum(matv, axis=0)
ColumnSums(matv, n) ==
    [col \in 1..n |-> SumSeq([ch \in 1..Len(matv) |-> matv[ch][col]])]

\* ratio_v applied to every column when first_peak_area is True.
RatioForAny(name, first_peak_area) ==
    IF first_peak_area THEN BranchingRatio(GroupLines(name), CsOf(name)) ELSE <<1, 1>>

\* ratio_v of one column: the branching ratio for an emission line when
\* first_peak_area is True, else 1.
RatioFor(name, first_peak_area) ==
    IF first_peak_area /\ name \in EmissionLines
    THEN BranchingRatio(GroupLines(name), CsOf(name))
    ELSE <<1, 1>>

\* results[:, :, i] * factor, factor a fraction.
ScaledPlane(coefs, i, factor) ==
    [r \in 1..Len(coefs) |-> [c \in 1..Len(coefs[r]) |->
        <<coefs[r][c][i] * factor[1], factor[2]>>]]

\* results[:, :, i]
Plane(coefs, i) == ScaledPlane(coefs, i, <<1, 1>>)

NoArea == [e_select |-> << >>, matv |-> << >>, results |-> << >>,
           first_peak_area |-> FALSE, total_list |-> << >>, mat_sum |-> << >>, i |-> 0]
EmptyDict == [name \in {} |-> << >>]

AreaOnly == UNCHANGED <<poolVars, admmVars, normVars, gridVars, brVars, binVars, cutVars, ctlVars, hdfVars, fpsVars, fmVars, sdVars, swVars, ppVars>>

InitArea ==
    /\ area_pc = "idle"
    /\ area = NoArea
    /\ result_map = EmptyDict

\* calculate_area(e_select, matv, results, param, first_peak_area) is called:
\*   total_list = e_select + ['snip_bkg'] + ['r_squared']
\*   mat_sum = np.sum(matv, axis=0);  result_map = dict()
AreaCall(e_select, matv, coefs, first_peak_area) ==
    /\ AreaOnly
    /\ area_pc = "idle"
    /\ area' = [e_select |-> e_select, matv |-> matv, results |-> coefs,
                first_peak_area |-> first_peak_area,
                total_list |-> e_select \o <<"snip_bkg", "r_squared">>,
                mat_sum |-> ColumnSums(matv, Len(e_select)), i |-> 0]
    /\ result_map' = EmptyDict
    /\ area_pc' = "loop"

\* One pass of "for i in range(len(e_select))".
AreaColumn ==
    /\ AreaOnly
    /\ area_pc = "loop"
    /\ area.i < Len(area.e_select)
    /\ LET i == area.i + 1
           name == area.total_list[i]
           ratio_v == RatioFor(name, area.first_peak_area)
       IN  result_map' = (name :> ScaledPlane(area.results, i,
                                      <<area.mat_sum[i] * ratio_v[1], ratio_v[2]>>))
                         @@ result_map
    /\ area' = [area EXCEPT !.i = @ + 1]
    /\ UNCHANGED area_pc

\* The background and r_squared planes are added, result_map is returned.
AreaReturn ==
    /\ AreaOnly
    /\ area_pc = "loop"
    /\ area.i = Len(area.e_select)
    /\ LET n == Len(area.total_list)
       IN  result_map' = (area.total_list[n] :> Plane(area.results, n))
                         @@ (area.total_list[n - 1] :> Plane(area.results, n - 1))
                         @@ result_map
    /\ area_pc' = "returned"
    /\ UNCHANGED area

NextArea ==
    \/ /\ area_pc = "idle"
       /\ \E e_select \in NameListsUpTo(AreaNames, MaxNames), first_peak_area \in BOOLEAN :
          \E matv \in MatvSet(Len(e_select)), coefs \in ResultsSet(Len(e_select)) :
             AreaCall(e_select, matv, coefs, first_peak_area)
    \/ AreaColumn
    \/ AreaReturn

\* ---- claims about calculate_area ----

\* C13: when calculate_area returns, for every name at position i of
\* e_select and every pixel (r, c), result_map[name][r, c] is
\* results[r, c, i] times the sum over the channels of matv[:, i], times the
\* branching ratio of the name exactly when first_peak_area is True and the
\* name is a K, L or M emission line.
C13_AreaPositional ==
    area_pc = "returned" =>
        \A i \in 1..Len(area.e_select) :
           LET name == area.e_select[i]
               colsum == SumSeq([ch \in 1..Len(area.matv) |-> area.matv[ch][i]])
               ratio == IF area.first_peak_area /\ name \in EmissionLines
                        THEN BranchingRatio(GroupLines(name), CsOf(name))
                        ELSE <<1, 1>>
           IN  /\ name \in DOMAIN result_map
               /\ \A r \in 1..AreaRows, c \in 1..AreaCols :
                     SameRatio(result_map[name][r][c],
                               <<area.results[r][c][i] * colsum * ratio[1], ratio[2]>>)

\* C13 witness: a call with first_peak_area True over an emission line and
\* another column, not in the order of the name set, has returned.
C13_Witness ==
    /\ area_pc = "returned" /\ area.first_peak_area
    /\ Len(area.e_select) >= 2
    /\ area.e_select[1] \notin EmissionLines
    /\ area.e_select[2] \in EmissionLines
    /\ BranchingRatio(GroupLines(area.e_select[2]), CsOf(area.e_select[2])) /= <<1, 1>>

(***************************************************************************)
(*                    bin_data_spacial (fit_spectrum.py)                   *)
(***************************************************************************)

\* Bounds of the binning model.
MaxBinDim == 4      \* the data have 1..MaxBinDim rows and columns
MaxBinSize == 3     \* bin_size ranges over 0..MaxBinSize
BinChannels == 2    \* channels of 3-D data

\* Data are a list of rows of pixels, a pixel being the list of its channel
\* values; a pixel of 2-D data (ndim = 2) is kept as a list of one number.
\* Two value patterns per shape.
BinData2D(nr, nc) ==
    { [ndim |-> 2, val |-> [r \in 1..nr |-> [c \in 1..nc |-> <<s * (10 * r + c)>>]]]
      : s \in {1, -1} }
BinData3D(nr, nc) ==
    { [ndim |-> 3, val |-> [r \in 1..nr |-> [c \in 1..nc |->
          [ch \in 1..BinChannels |-> s * (100 * ch + 10 * r + c)]]]]
      : s \in {1, -1} }
BinDataSet ==
    UNION { BinData2D(nr, nc) \cup BinData3D(nr, nc) : nr \in 1..MaxBinDim, nc \in 1..MaxBinDim }

\* The sum of a finite set of cells of a function on pairs.
RECURSIVE SumOver(_, _)
SumOver(f, S) ==
    IF S = {} THEN 0
    ELSE LET p == CHOOSE q \in S : TRUE IN f[p] + SumOver(f, S \ {p})

\* The 0-based block (i, j) of size n, as 1-based cells within nr x nc:
\* data[i*n : i*n+n, j*n : j*n+n].
Block(i, j, n, nr, nc) ==
    { <<r, c>> \in (1..nr) \X (1..nc) :
        /\ i * n < r /\ r <= i * n + n
        /\ j * n < c /\ c <= j * n + n }

\* np.sum over a block of 2-D data; over a block of 3-D data with
\* axis=(0, 1), channel by channel.
BlockSum2D(val, cells) ==
    <<SumOver([p \in cells |-> val[p[1]][p[2]][1]], cells)>>
BlockSum3D(val, cells) ==
    [ch \in 1..Len(val[1][1]) |-> SumOver([p \in cells |-> val[p[1]][p[2]][ch]], cells)]

\* d_shape under true division: the quotient as it is, an integer or not;
\* kept as the pair <<shape, bin_size>>, it is a float in either case.
\* d_shape under integer division: the floor.
FloorShape(k, bin_size) == k \div bin_size

NoBin == [data |-> [ndim |-> 2, val |-> << >>], bin_size |-> 0, true_division |-> FALSE,
          d_shape |-> <<0, 0>>, data_new |-> << >>, i |-> 0, j |-> 0]
NoBinReturn == [same_object |-> FALSE, val |-> << >>]

BinOnly == UNCHANGED <<poolVars, admmVars, normVars, gridVars, brVars, areaVars, cutVars, ctlVars, hdfVars, fpsVars, fmVars, sdVars, swVars, ppVars>>

InitBin ==
    /\ bin_pc = "idle"
    /\ bin = NoBin
    /\ bin_ret = NoBinReturn

\* bin_data_spacial(data, bin_size) is called.  true_division tells whether
\* "/" on integers is true division (Python 3) or floor division (Python 2;
\* the module does not import division from __future__).
BinCall(data, bin_size, true_division) ==
    /\ BinOnly
    /\ bin_pc = "idle"
    /\ bin' = [NoBin EXCEPT !.data = data, !.bin_size = bin_size,
                            !.true_division = true_division]
    /\ bin_pc' = "called"
    /\ bin_ret' = NoBinReturn

\* "if bin_size <= 1: return data"
BinSkip ==
    /\ BinOnly
    /\ bin_pc = "called"
    /\ bin.bin_size <= 1
    /\ bin_ret' = [same_object |-> TRUE, val |-> bin.data.val]
    /\ bin_pc' = "returned"
    /\ UNCHANGED bin

\* d_shape = np.array([data.shape[0], data.shape[1]])/bin_size
\* data_new = np.zeros([d_shape[0], d_shape[1]]) (with data.shape[2] for 3-D).
\* Under true division d_shape holds floats, which np.zeros refuses as
\* dimensions (TypeError).
BinAllocate ==
    /\ BinOnly
    /\ bin_pc = "called"
    /\ bin.bin_size > 1
    /\ IF bin.true_division
       THEN /\ bin_pc' = "raised"
            /\ UNCHANGED bin
       ELSE LET d0 == FloorShape(Len(bin.data.val), bin.bin_size)
                d1 == FloorShape(Len(bin.data.val[1]), bin.bin_size)
                zero == [ch \in 1..Len(bin.data.val[1][1]) |-> 0]
            IN  /\ bin' = [bin EXCEPT !.d_shape = <<d0, d1>>,
                                      !.data_new = [r \in 1..d0 |-> [c \in 1..d1 |-> zero]],
                                      !.i = 0, !.j = 0]
                /\ bin_pc' = IF d0 = 0 \/ d1 = 0 THEN "finish" ELSE "loop"
    /\ UNCHANGED bin_ret

\* One pass of the inner loop: data_new[i, j] = np.sum(data[block (i, j)]).
BinBlock ==
    /\ BinOnly
    /\ bin_pc = "loop"
    /\ LET i == bin.i
           j == bin.j
           cells == Block(i, j, bin.bin_size, Len(bin.data.val), Len(bin.data.val[1]))
           v == IF bin.data.ndim = 2 THEN BlockSum2D(bin.data.val, cells)
                ELSE BlockSum3D(bin.data.val, cells)
           last_j == j + 1 = bin.d_shape[2]
           last_i == i + 1 = bin.d_shape[1]
       IN  /\ bin' = [bin EXCEPT !.data_new[i + 1][j + 1] = v,
                                 !.j = IF last_j THEN 0 ELSE j + 1,
                                 !.i = IF last_j THEN i + 1 ELSE i]
           /\ bin_pc' = IF last_j /\ last_i THEN "finish" ELSE "loop"
    /\ UNCHANGED bin_ret

\* return data_new
BinReturn ==
    /\ BinOnly
    /\ bin_pc = "finish"
    /\ bin_ret' = [same_object |-> FALSE, val |-> bin.data_new]
    /\ bin_pc' = "returned"
    /\ UNCHANGED bin

NextBin ==
    \/ /\ bin_pc = "idle"
       /\ \E data \in BinDataSet, bin_size \in 0..MaxBinSize, true_division \in BOOLEAN :
             BinCall(data, bin_size, true_division)
    \/ BinSkip
    \/ BinAllocate
    \/ BinBlock
    \/ BinReturn

\* ---- claims about bin_data_spacial ----

\* C15: a call with bin_size n > 1 on data of R rows and C columns returns
\* floor(R/n) x floor(C/n) pixels, pixel (i, j) being the sum of the input
\* over rows i*n..i*n+n-1 and columns j*n..j*n+n-1 (channel by channel for
\* 3-D data), the left-over rows and columns being dropped; a call with
\* n <= 1 returns its input.
C15_BinTruncates ==
    bin_pc \in {"returned", "raised"} =>
        LET n == bin.bin_size
            d == bin.data.val
            R == Len(d)
            C == Len(d[1])
        IN  /\ bin_pc = "returned"
            /\ n <= 1 => bin_ret = [same_object |-> TRUE, val |-> d]
            /\ n > 1 =>
                 /\ Len(bin_ret.val) = R \div n
                 /\ \A i \in 1..(R \div n) :
                      /\ Len(bin_ret.val[i]) = C \div n
                      /\ \A j \in 1..(C \div n) :
                           LET rows == ((i - 1) * n + 1)..((i - 1) * n + n)
                               cols == ((j - 1) * n + 1)..((j - 1) * n + n)
                               cells == rows \X cols
                           IN  \A ch \in 1..Len(d[1][1]) :
                                  bin_ret.val[i][j][ch] =
                                     SumOver([p \in cells |-> d[p[1]][p[2]][ch]], cells)

\* C15 witness: under true division a call with bin_size 2 on data of 4 x 4
\* pixels, which 2 divides, has raised.
C15_Witness ==
    /\ bin_pc = "raised" /\ bin.true_division
    /\ bin.bin_size = 2
    /\ Len(bin.data.val) = 4 /\ Len(bin.data.val[1]) = 4

\* The statement of C15 where "/" on integers is floor division.
BinTruncatesFloorDivision ==
    ~bin.true_division => C15_BinTruncates

(***************************************************************************)
(*                get_cutted_spectrum_in3D (fit_spectrum.py)               *)
(***************************************************************************)

\* Bounds of the energy-cut model.
MaxChannels == 4    \* spectra have 2..MaxChannels channels
MaxEnergy == 5      \* energies range over -1..MaxEnergy, in units of the step

\* int(a / c): the quotient truncated toward zero (c /= 0).
TruncDiv(a, c) == Sign(a) * Sign(c) * (Abs(a) \div Abs(c))

\* trim(x0, y0, low, high) of skbeam: the entries of x0 within [low, high].
Trim(x0, low, high) == SelectSeq(x0, LAMBDA v : low <= v /\ v <= high)

\* A Python slice index on a sequence of length n: a negative index counts
\* from the end; the result is clamped to 0..n.
SliceIndex(k, n) ==
    LET k1 == IF k < 0 THEN k + n ELSE k
    IN  IF k1 < 0 THEN 0 ELSE IF k1 > n THEN n ELSE k1

\* s[start:stop] for a sequence s (0-based start, stop excluded).
Slice(s, start, stop) ==
    LET a == SliceIndex(start, Len(s))
        b == SliceIndex(stop, Len(s))
    IN  IF a >= b THEN << >> ELSE SubSeq(s, a + 1, b)

\* np.arange(n)
Arange(n) == [k \in 1..n |-> k - 1]

\* data[:, :, lowv:highv+1] for a cube (rows of pixels of spectra).
CutCube(data, lowv, highv) ==
    [r \in 1..Len(data) |-> [c \in 1..Len(data[r]) |-> Slice(data[r][c], lowv, highv + 1)]]

\* The cubes given: 1 x 2 pixels, channel k of pixel c holding 10 * c + k.
CubeSet == { [r \in 1..1 |-> [c \in 1..2 |-> [k \in 1..n |-> 10 * c + k - 1]]]
             : n \in 2..MaxChannels }

\* The function: x, data, [lowv, highv].
GetCuttedSpectrum(cube, low_e, high_e, e_offset, e_linear) ==
    LET data == cube
        y0 == data[1][1]
        x0 == Arange(Len(y0))
        lowv == TruncDiv(low_e - e_offset, e_linear)
        highv == TruncDiv(high_e - e_offset, e_linear)
    IN  [x |-> Trim(x0, lowv, highv),
         data |-> CutCube(data, lowv, highv),
         fit_range |-> <<lowv, highv>>]

NoCut == [exp_data |-> << >>, low_e |-> 0, high_e |-> 0, e_offset |-> 0, e_linear |-> 1]
NoCutReturn == [x |-> << >>, data |-> << >>, fit_range |-> <<0, 0>>]

CutOnly == UNCHANGED <<poolVars, admmVars, normVars, gridVars, brVars, areaVars, binVars, ctlVars, hdfVars, fpsVars, fmVars, sdVars, swVars, ppVars>>

InitCut ==
    /\ cut_pc = "idle"
    /\ cut = NoCut
    /\ cut_ret = NoCutReturn

\* get_cutted_spectrum_in3D(exp_data, low_e, high_e, e_offset, e_linear) is called.
CutCall(cube, low_e, high_e, e_offset, e_linear) ==
    /\ CutOnly
    /\ cut_pc = "idle"
    /\ cut' = [exp_data |-> cube, low_e |-> low_e, high_e |-> high_e,
               e_offset |-> e_offset, e_linear |-> e_linear]
    /\ cut_pc' = "called"
    /\ cut_ret' = NoCutReturn

\* The function runs to its return statement.
CutReturn ==
    /\ CutOnly
    /\ cut_pc = "called"
    /\ cut_ret' = GetCuttedSpectrum(cut.exp_data, cut.low_e, cut.high_e,
                                    cut.e_offset, cut.e_linear)
    /\ cut_pc' = "returned"
    /\ UNCHANGED cut

NextCut ==
    \/ /\ cut_pc = "idle"
       /\ \E cube \in CubeSet, low_e \in -1..MaxEnergy, high_e \in -1..MaxEnergy,
             e_offset \in -1..2, e_linear \in {-1, 1, 2} :
             CutCall(cube, low_e, high_e, e_offset, e_linear)
    \/ CutReturn

\* ---- claims about get_cutted_spectrum_in3D ----

\* The channels lowv..highv that the input has, as 0-based channel numbers.
WindowChannels(n, lowv, highv) ==
    SelectSeq(Arange(n), LAMBDA v : lowv <= v /\ v <= highv)

\* C18: when the call returns, the energy axis of the cut cube is as long as
\* x, and every pixel of the cut cube holds exactly the input channels
\* lowv..highv, lowv and highv being the returned channel bounds; this for
\* every window, those with a negative lower channel included.
C18_CutMatchesAxis ==
    cut_pc = "returned" =>
        LET lowv == cut_ret.fit_range[1]
            highv == cut_ret.fit_range[2]
            n == Len(cut.exp_data[1][1])
            chans == WindowChannels(n, lowv, highv)
        IN  \A r \in 1..Len(cut.exp_data) : \A c \in 1..Len(cut.exp_data[r]) :
               /\ Len(cut_ret.data[r][c]) = Len(cut_ret.x)
               /\ cut_ret.data[r][c] = [k \in 1..Len(chans) |-> cut.exp_data[r][c][chans[k] + 1]]

\* C18 witness: a window whose lower bound converts to a negative channel
\* and whose upper bound lies inside the spectrum has returned an x with
\* channels and a cube with fewer.
C18_Witness ==
    /\ cut_pc = "returned"
    /\ cut_ret.fit_range[1] < 0 /\ cut_ret.fit_range[2] >= 0
    /\ cut_ret.fit_range[2] < Len(cut.exp_data[1][1])
    /\ Len(cut_ret.x) = cut_ret.fit_range[2] + 1
    /\ Len(cut_ret.data[1][1]) < Len(cut_ret.x)

\* The statement of C18 for windows whose bounds convert to channels >= 0.
CutMatchesAxisNonNegative ==
    (cut_pc = "returned" /\ cut_ret.fit_range[1] >= 0 /\ cut_ret.fit_range[2] >= 0)
        => C18_CutMatchesAxis

(***************************************************************************)
(*             single_pixel_fitting_controller (fit_spectrum.py)           *)
(***************************************************************************)

\* Bounds of the controller model.
MaxCtlRows == 4     \* the cube has 1..MaxCtlRows rows of pixels
CtlCols == 2        \* and CtlCols columns
CtlChannels == 3    \* channels of a spectrum
MaxElements == 2    \* element lines of the parameter set

\* The cubes given: channel k of pixel (r, c) holds 100 * k + 10 * r + c,
\* stored as integers (raw counts) or as floats.
CtlCubes ==
    { [dtype |-> t,
       val |-> [r \in 1..nr |-> [c \in 1..CtlCols |->
                  [k \in 1..CtlChannels |-> 100 * k + 10 * r + c]]]]
      : nr \in 1..MaxCtlRows, t \in {"int", "float"} }

\* The element lines of the parameter set; element_list is kept as the list
\* that param['non_fitting_values']['element_list'].split(', ') gives.
CtlLines == <<"Fe_K", "Cu_K", "Zn_K">>
CtlElementLists == { SubSeq(CtlLines, 1, n) : n \in 1..MaxElements }

\* The parameter sets: the energy window and the calibration, in units of
\* the step; the last one converts the lower bound to channel -1.
CtlWindows ==
    { [energy_bound_low |-> 0, energy_bound_high |-> CtlChannels - 1, e_offset |-> 0, e_linear |-> 1],
      [energy_bound_low |-> 1, energy_bound_high |-> CtlChannels - 1, e_offset |-> 0, e_linear |-> 1],
      [energy_bound_low |-> 0, energy_bound_high |-> CtlChannels - 1, e_offset |-> 1, e_linear |-> 1] }
CtlParams ==
    { [window |-> w, element_list |-> l] : w \in CtlWindows, l \in CtlElementLists }

\* A matrix is kept as integer numerators (a list of rows) over one common
\* denominator; a denominator 0 stands for the inf/nan entries that a
\* division by zero leaves.
RegMat(val, den) == [val |-> val, den |-> den]
NumRows(m) == Len(m.val)
NumCols(m) == IF Len(m.val) = 0 THEN 0 ELSE Len(m.val[1])
RegColumn(m, i) == [k \in 1..NumRows(m) |-> m.val[k][i]]

\* construct_linear_model(x, param, elist) of skbeam: one column per element
\* line, then the Compton and the elastic column; one row per entry of x.
\* Column j holds the profile 10 * j + x[k] + 1 at channel x[k].
ConstructLinearModel(x, elist) ==
    LET names == elist \o <<"compton", "elastic">>
    IN  [e_select |-> names,
         matv |-> RegMat([k \in 1..Len(x) |-> [j \in 1..Len(names) |-> 10 * j + x[k] + 1]], 1)]

\* comp_elastic_combine: e_select = e_select[:-1]; e_select[-1] =
\* 'comp_elastic'; matv = matv_old[:, :-1]; matv[:, -1] += matv_old[:, -1]
CombineNames(e_select) ==
    LET n == Len(e_select) IN [i \in 1..(n - 1) |-> IF i = n - 1 THEN "comp_elastic" ELSE e_select[i]]
DropCompton(matv_old) ==
    LET n == NumCols(matv_old)
    IN  RegMat([k \in 1..NumRows(matv_old) |-> [j \in 1..(n - 1) |-> matv_old.val[k][j]]],
               matv_old.den)
CombineColumns(matv_old) ==
    LET n == NumCols(matv_old)
    IN  RegMat([k \in 1..NumRows(matv_old) |->
                  [j \in 1..(n - 1) |->
                      IF j = n - 1 THEN matv_old.val[k][n - 1] + matv_old.val[k][n]
                      ELSE matv_old.val[k][j]]],
               matv_old.den)

\* linear_bg: e_select.append('const_bkg'); matv = np.ones([rows, cols + 1]);
\* matv[:, :-1] = matv_old  (the matrix has denominator 1 at this point)
AppendOnes(matv_old) ==
    LET n == NumCols(matv_old)
    IN  RegMat([k \in 1..NumRows(matv_old) |->
                  [j \in 1..(n + 1) |-> IF j = n + 1 THEN 1 ELSE matv_old.val[k][j]]],
               matv_old.den)

\* The cube of spectra at work: numerators over one common denominator, and
\* the dtype of the array that holds them.
Cube(val, den, dtype) == [val |-> val, den |-> den, dtype |-> dtype]
CubeRows(d) == Len(d.val)
CubeCols(d) == IF Len(d.val) = 0 THEN 0 ELSE Len(d.val[1])

\* The arrays in memory are kept as a list, an array being referred to by
\* its place in the list.  np.asarray(a) of an array is the array itself.
NpAsArray(mem, ref) == [mem |-> mem, ref |-> ref]

\* np.array(a): a new array holding the entries of a.
NpArray(mem, ref) == [mem |-> Append(mem, mem[ref]), ref |-> Len(mem) + 1]

\* "exp_data += raise_bg" seen from the array that exp_data is the view
\* [:, :, lowv:highv+1] of: the channels of the slice are raised.
RaisedInBase(base, lowv, highv, raise_bg) ==
    [r \in 1..Len(base) |-> [c \in 1..Len(base[r]) |->
        LET n == Len(base[r][c])
            a == SliceIndex(lowv, n)
            b == SliceIndex(highv + 1, n)
        IN  [k \in 1..n |-> IF a < k /\ k <= b THEN base[r][c][k] + raise_bg
                             ELSE base[r][c][k]]]]

\* exp_data += raise_bg
RaiseBg(d, raise_bg) ==
    Cube([r \in 1..CubeRows(d) |-> [c \in 1..CubeCols(d) |->
            [k \in 1..Len(d.val[r][c]) |-> d.val[r][c][k] + raise_bg * d.den]]],
         d.den, d.dtype)

\* bin_data_spacial(data, bin_size) on a 3-D cube, "/" being floor division:
\* a new float array of floor(R/n) x floor(C/n) block sums.
BinDataSpacial(d, bin_size) ==
    IF bin_size <= 1 THEN d
    ELSE LET R == CubeRows(d)
             C == CubeCols(d)
         IN  Cube([i \in 1..FloorShape(R, bin_size) |-> [j \in 1..FloorShape(C, bin_size) |->
                     BlockSum3D(d.val, Block(i - 1, j - 1, bin_size, R, C))]],
                  d.den, "float")

\* np.convolve(a, [1/w, ..., 1/w], mode='same') for len(a) >= w, as the
\* numerators over w: entry k sums a[k-1], a[k] for w = 2 and
\* a[k-1], a[k], a[k+1] for w = 3 (entries off the ends count as 0).
ConvolveSame(a, w) ==
    LET at(k) == IF k >= 1 /\ k <= Len(a) THEN a[k] ELSE 0
    IN  [k \in 1..Len(a) |-> IF w = 2 THEN at(k - 1) + at(k)
                             ELSE at(k - 1) + at(k) + at(k + 1)]

\* conv_expdata_energy(data, width): data_new = np.array(data) keeps the
\* dtype of data, so the averages assigned into an integer array are
\* truncated.
ConvExpdataEnergy(d, width) ==
    LET conv(r, c) == ConvolveSame(d.val[r][c], width)
    IN  IF d.dtype = "int"
        THEN Cube([r \in 1..CubeRows(d) |-> [c \in 1..CubeCols(d) |->
                     [k \in 1..Len(d.val[r][c]) |-> TruncDiv(conv(r, c)[k], width * d.den)]]],
                  1, "int")
        ELSE Cube([r \in 1..CubeRows(d) |-> [c \in 1..CubeCols(d) |-> conv(r, c)]],
                  d.den * width, "float")

\* np.convolve raises for an empty spectrum, and for a spectrum shorter than
\* the kernel it returns an array of the kernel's length, which the
\* assignment into data_new[i, j, :] refuses.
ConvRaises(d, width) ==
    CubeRows(d) > 0 /\ CubeCols(d) > 0 /\ Len(d.val[1][1]) < width

\* matv /= exp_data.shape[0]*exp_data.shape[1]
Scaled(matv, n) == RegMat(matv.val, matv.den * n)

\* The per-pixel solvers are external (fit_per_line_nnls of skbeam, lmfit);
\* their outcome for one spectrum is kept as a term naming the solver, the
\* matrix and the spectrum it was given.  Non-negative least squares is
\* homogeneous in the matrix: against A/d the coefficients are d times the
\* coefficients against A, while the summed background and r_squared do not
\* change; the term holds the integer matrix and the factor holds d.
\* The nonlinear fit starts from fixed values and stops on a tolerance, so
\* its term keeps the matrix as it was given.
Spectrum(d, r, c) == [val |-> d.val[r][c], den |-> d.den]
NnlsFit(matv, y, use_snip) ==
    [factor |-> matv.den,
     term |-> [fn |-> "nnls", matv |-> RegMat(matv.val, 1), y |-> y, use_snip |-> use_snip]]
NonlinearFit(reg_mat, y, use_snip) ==
    [factor |-> 1,
     term |-> [fn |-> "nonlinear", matv |-> reg_mat, y |-> y, use_snip |-> use_snip]]

\* A solver is given a matrix with one row per channel of the spectrum;
\* otherwise it raises.
FitRaises(matv, d) ==
    CubeRows(d) > 0 /\ CubeCols(d) > 0 /\ Len(d.val[1][1]) /= NumRows(matv)

\* fit_pixel_multiprocess_nnls / fit_pixel_multiprocess_nonlinear: every
\* pixel of every row is fitted, the rows collected in row order.
FitPixels(d, matv, method, use_snip) ==
    [r \in 1..CubeRows(d) |-> [c \in 1..CubeCols(d) |->
        IF method = "nnls" THEN NnlsFit(matv, Spectrum(d, r, c), use_snip)
        ELSE NonlinearFit(matv, Spectrum(d, r, c), use_snip)]]

\* np.sum(matv, axis=0)[i], as a fraction (MatSumUnscaled: the sum over the
\* numerators alone, the denominator of the matrix left out).
MatSumUnscaled(matv, i) == <<SumSeq(RegColumn(matv, i)), 1>>
MatSum(matv, i) == <<SumSeq(RegColumn(matv, i)), matv.den>>

\* One entry of a result map: coef[1]/coef[2] times entry "entry" of the
\* solver term.
MapEntry(coef, fitted, entry) == [coef |-> coef, term |-> fitted.term, entry |-> entry]

\* calculate_area(e_select, matv, results, param, first_peak_area=False):
\* results[:, :, i]*mat_sum[i] under e_select[i], then the background and
\* r_squared layers.
CalculateArea(e_select, matv, fitted) ==
    LET total_list == e_select \o <<"snip_bkg", "r_squared">>
        plane(i) ==
            [r \in 1..Len(fitted) |-> [c \in 1..Len(fitted[r]) |->
                IF i <= Len(e_select)
                THEN MapEntry(<<fitted[r][c].factor * MatSum(matv, i)[1], MatSum(matv, i)[2]>>,
                              fitted[r][c], i)
                ELSE MapEntry(<<1, 1>>, fitted[r][c], total_list[i])]]
    IN  [name \in {total_list[i] : i \in 1..Len(total_list)} |->
            plane(CHOOSE i \in 1..Len(total_list) : total_list[i] = name)]

\* get_area_and_error_nonlinear_fit(elist, fit_results, reg_mat): the value
\* of parameter m times mat_sum[m] under elist[m], then 'snip_bg'.
GetAreaNonlinear(elist, fitted, reg_mat) ==
    LET keys == elist \o <<"snip_bg">>
        plane(i) ==
            [r \in 1..Len(fitted) |-> [c \in 1..Len(fitted[r]) |->
                IF i <= Len(elist)
                THEN MapEntry(MatSum(reg_mat, i), fitted[r][c], i)
                ELSE MapEntry(<<1, 1>>, fitted[r][c], "snip_bg")]]
    IN  [name \in {keys[i] : i \in 1..Len(keys)} |->
            plane(CHOOSE i \in 1..Len(keys) : keys[i] = name)]

NoCtl ==
    [input_data |-> Cube(<< >>, 1, "float"),
     param |-> [window |-> [energy_bound_low |-> 0, energy_bound_high |-> 0,
                            e_offset |-> 0, e_linear |-> 1],
                element_list |-> << >>],
     method |-> "nnls", pixel_bin |-> 0, raise_bg |-> 0,
     comp_elastic_combine |-> FALSE, linear_bg |-> FALSE, use_snip |-> TRUE,
     bin_energy |-> 1,
     x |-> << >>, data |-> Cube(<< >>, 1, "float"), fit_range |-> <<0, 0>>,
     e_select |-> << >>, matv |-> RegMat(<< >>, 1), true_division |-> FALSE,
     exc |-> "none", mem |-> << >>, data_base |-> None]
NoCtlReturn ==
    [result_map |-> << >>,
     calculation_info |-> [has_error_map |-> FALSE, fit_name |-> << >>,
                           regression_mat |-> RegMat(<< >>, 1), fitted |-> << >>,
                           fit_range |-> <<0, 0>>, energy_axis |-> << >>,
                           data |-> Cube(<< >>, 1, "float")]]

CtlOnly == UNCHANGED <<poolVars, admmVars, normVars, gridVars, brVars, areaVars, binVars, cutVars, hdfVars, fpsVars, fmVars, sdVars, swVars, ppVars>>

InitCtl ==
    /\ ctl_pc = "idle"
    /\ ctl = NoCtl
    /\ ctl_ret = NoCtlReturn

\* single_pixel_fitting_controller(input_data, param, method, pixel_bin,
\* raise_bg, comp_elastic_combine, linear_bg, use_snip, bin_energy) is called.
CtlCall(input_data, param, method, pixel_bin, raise_bg, comp_elastic_combine, linear_bg, use_snip, bin_energy) ==
    /\ CtlOnly
    /\ ctl_pc = "idle"
    /\ ctl' = [NoCtl EXCEPT !.input_data = Cube(input_data.val, 1, input_data.dtype),
                            !.param = param, !.method = method,
                            !.pixel_bin = pixel_bin, !.raise_bg = raise_bg,
                            !.comp_elastic_combine = comp_elastic_combine,
                            !.linear_bg = linear_bg, !.use_snip = use_snip,
                            !.bin_energy = bin_energy,
                            !.mem = <<input_data.val>>]
    /\ ctl_pc' = "cut"
    /\ ctl_ret' = NoCtlReturn

\* x, exp_data, fit_range = get_cutted_spectrum_in3D(input_data, ...):
\* "data = np.array(exp_data)" makes a new array of the cube, and the cut
\* returned is a view of that new array.
CtlCut ==
    /\ CtlOnly
    /\ ctl_pc = "cut"
    /\ LET w == ctl.param.window
           copied == NpArray(ctl.mem, 1)
           got == GetCuttedSpectrum(copied.mem[copied.ref], w.energy_bound_low,
                                    w.energy_bound_high, w.e_offset, w.e_linear)
       IN  ctl' = [ctl EXCEPT !.x = got.x,
                              !.data = Cube(got.data, 1, ctl.input_data.dtype),
                              !.fit_range = got.fit_range,
                              !.mem = copied.mem, !.data_base = copied.ref]
    /\ ctl_pc' = "build"
    /\ UNCHANGED ctl_ret

\* e_select, matv, e_area = construct_linear_model(x, param, elist)
CtlBuild ==
    /\ CtlOnly
    /\ ctl_pc = "build"
    /\ LET built == ConstructLinearModel(ctl.x, ctl.param.element_list)
       IN  ctl' = [ctl EXCEPT !.e_select = built.e_select, !.matv = built.matv]
    /\ ctl_pc' = "combine"
    /\ UNCHANGED ctl_ret

\* if comp_elastic_combine is True: ...
CtlCombine ==
    /\ CtlOnly
    /\ ctl_pc = "combine"
    /\ ctl' = IF ctl.comp_elastic_combine
              THEN [ctl EXCEPT !.e_select = CombineNames(ctl.e_select),
                               !.matv = CombineColumns(ctl.matv)]
              ELSE ctl
    /\ ctl_pc' = "linear_bg"
    /\ UNCHANGED ctl_ret

\* if linear_bg is True: ...
CtlLinearBg ==
    /\ CtlOnly
    /\ ctl_pc = "linear_bg"
    /\ ctl' = IF ctl.linear_bg
              THEN [ctl EXCEPT !.e_select = Append(ctl.e_select, "const_bkg"),
                               !.matv = AppendOnes(ctl.matv)]
              ELSE ctl
    /\ ctl_pc' = "raise_bg"
    /\ UNCHANGED ctl_ret

\* if raise_bg > 0: exp_data += raise_bg; the addition is made in place,
\* in the array that exp_data is a view of.
CtlRaiseBg ==
    /\ CtlOnly
    /\ ctl_pc = "raise_bg"
    /\ ctl' = IF ctl.raise_bg > 0
              THEN [ctl EXCEPT !.data = RaiseBg(ctl.data, ctl.raise_bg),
                               !.mem[ctl.data_base] =
                                   RaisedInBase(ctl.mem[ctl.data_base], ctl.fit_range[1],
                                                ctl.fit_range[2], ctl.raise_bg)]
              ELSE ctl
    /\ ctl_pc' = "bin"
    /\ UNCHANGED ctl_ret

\* if pixel_bin in [4, 9]: exp_data = bin_data_spacial(exp_data,
\* bin_size=int(np.sqrt(pixel_bin))).  Where "/" on integers is true
\* division, bin_data_spacial raises (np.zeros refuses float dimensions).
CtlBin ==
    /\ CtlOnly
    /\ ctl_pc = "bin"
    /\ IF ctl.pixel_bin \in {4, 9}
       THEN \E true_division \in BOOLEAN :
               LET bin_size == IF ctl.pixel_bin = 4 THEN 2 ELSE 3
               IN  IF true_division
                   THEN /\ ctl' = [ctl EXCEPT !.true_division = TRUE, !.exc = "TypeError"]
                        /\ ctl_pc' = "raised"
                   ELSE /\ ctl' = [ctl EXCEPT !.data = BinDataSpacial(ctl.data, bin_size)]
                        /\ ctl_pc' = "conv"
       ELSE /\ ctl' = ctl
            /\ ctl_pc' = "conv"
    /\ UNCHANGED ctl_ret

\* if bin_energy in [2, 3]: exp_data = conv_expdata_energy(exp_data,
\* width=bin_energy)
CtlConv ==
    /\ CtlOnly
    /\ ctl_pc = "conv"
    /\ IF ctl.bin_energy \in {2, 3}
       THEN IF ConvRaises(ctl.data, ctl.bin_energy)
            THEN /\ ctl' = [ctl EXCEPT !.exc = "ValueError"]
                 /\ ctl_pc' = "raised"
            ELSE /\ ctl' = [ctl EXCEPT !.data = ConvExpdataEnergy(ctl.data, ctl.bin_energy)]
                 /\ ctl_pc' = "scale"
       ELSE /\ ctl' = ctl
            /\ ctl_pc' = "scale"
    /\ UNCHANGED ctl_ret

\* matv /= exp_data.shape[0]*exp_data.shape[1]
CtlScale ==
    /\ CtlOnly
    /\ ctl_pc = "scale"
    /\ ctl' = [ctl EXCEPT !.matv = Scaled(ctl.matv, CubeRows(ctl.data) * CubeCols(ctl.data))]
    /\ ctl_pc' = "fit"
    /\ UNCHANGED ctl_ret

\* The fit by the method chosen, the area maps and calculation_info, to the
\* return statement.  A solver given a matrix of the wrong height raises;
\* with no pixel left, results[:, :, i] (nnls) or fit_results[0] (nonlinear,
\* no row left) raises IndexError.
CtlFit ==
    /\ CtlOnly
    /\ ctl_pc = "fit"
    /\ LET d == ctl.data
           matrix_norm == CubeRows(d) * CubeCols(d)
           reg_mat == Scaled(ctl.matv, matrix_norm)
           nnls == ctl.method = "nnls"
           fitted == FitPixels(d, IF nnls THEN ctl.matv ELSE reg_mat, ctl.method, ctl.use_snip)
           info == [has_error_map |-> ~nnls, fit_name |-> ctl.e_select,
                    regression_mat |-> ctl.matv, fitted |-> fitted,
                    fit_range |-> ctl.fit_range, energy_axis |-> ctl.x, data |-> d]
       IN  IF FitRaises(ctl.matv, d)
           THEN /\ ctl' = [ctl EXCEPT !.exc = "ValueError"]
                /\ ctl_pc' = "raised"
                /\ UNCHANGED ctl_ret
           ELSE IF CubeRows(d) = 0 \/ (nnls /\ CubeCols(d) = 0)
           THEN /\ ctl' = [ctl EXCEPT !.exc = "IndexError"]
                /\ ctl_pc' = "raised"
                /\ UNCHANGED ctl_ret
           ELSE /\ ctl_ret' = [result_map |-> IF nnls THEN CalculateArea(ctl.e_select, ctl.matv, fitted)
                                             ELSE GetAreaNonlinear(ctl.e_select, fitted, reg_mat),
                               calculation_info |-> info]
                /\ ctl_pc' = "returned"
                /\ UNCHANGED ctl

\* Inputs of the controller.
CtlMethods == {"nnls", "nonlinear"}
CtlPixelBins == {0, 4, 9}
CtlRaiseBgs == {0, 1}
CtlBinEnergies == {1, 2, 3}

NextCtl ==
    \/ /\ ctl_pc = "idle"
       /\ \E input_data \in CtlCubes, param \in CtlParams, method \in CtlMethods,
             pixel_bin \in CtlPixelBins, raise_bg \in CtlRaiseBgs,
             comp_elastic_combine \in BOOLEAN, linear_bg \in BOOLEAN,
             use_snip \in BOOLEAN, bin_energy \in CtlBinEnergies :
             CtlCall(input_data, param, method, pixel_bin, raise_bg,
                     comp_elastic_combine, linear_bg, use_snip, bin_energy)
    \/ CtlCut
    \/ CtlBuild
    \/ CtlCombine
    \/ CtlLinearBg
    \/ CtlRaiseBg
    \/ CtlBin
    \/ CtlConv
    \/ CtlScale
    \/ CtlFit


\* ---- claims about single_pixel_fitting_controller ----

\* The controller is past its matrix post-processing and has not yet scaled
\* the matrix.
PostProcessed == ctl_pc \in {"raise_bg", "bin", "conv", "scale"}

\* The names and the matrix that construct_linear_model gave this call.
Built == ConstructLinearModel(ctl.x, ctl.param.element_list)

\* C14: after the matrix post-processing, for every combination of
\* comp_elastic_combine and linear_bg, e_select has as many entries as the
\* matrix has columns and name i labels column i: the element lines keep the
\* columns the model builder gave them; with comp_elastic_combine the
\* trailing Compton and elastic columns are replaced by one column, their
\* channel-wise sum, named 'comp_elastic', and otherwise they stay; with
\* linear_bg one trailing column of ones named 'const_bkg' is appended.
C14_NamesLabelColumns ==
    PostProcessed =>
        LET names == ctl.e_select
            m == ctl.matv
            b == Built.matv
            ne == Len(ctl.param.element_list)
            nsc == IF ctl.comp_elastic_combine THEN 1 ELSE 2
            nbg == IF ctl.linear_bg THEN 1 ELSE 0
        IN  /\ Len(names) = NumCols(m)
            /\ Len(names) = ne + nsc + nbg
            /\ m.den = 1
            /\ NumRows(m) = Len(ctl.x)
            /\ \A i \in 1..ne :
                  /\ names[i] = ctl.param.element_list[i]
                  /\ RegColumn(m, i) = RegColumn(b, i)
            /\ IF ctl.comp_elastic_combine
               THEN /\ names[ne + 1] = "comp_elastic"
                    /\ \A k \in 1..NumRows(m) :
                          m.val[k][ne + 1] = b.val[k][ne + 1] + b.val[k][ne + 2]
               ELSE /\ names[ne + 1] = "compton" /\ names[ne + 2] = "elastic"
                    /\ RegColumn(m, ne + 1) = RegColumn(b, ne + 1)
                    /\ RegColumn(m, ne + 2) = RegColumn(b, ne + 2)
            /\ ctl.linear_bg =>
                  /\ names[Len(names)] = "const_bkg"
                  /\ \A k \in 1..NumRows(m) : m.val[k][Len(names)] = 1

\* C14 witness: a call with both options has post-processed a matrix of two
\* element lines: four names, four columns, the last two being the combined
\* scattering column and the column of ones.
C14_Witness ==
    /\ ctl_pc = "scale"
    /\ ctl.comp_elastic_combine /\ ctl.linear_bg
    /\ Len(ctl.param.element_list) = 2
    /\ ctl.e_select = <<"Fe_K", "Cu_K", "comp_elastic", "const_bkg">>
    /\ NumCols(ctl.matv) = 4
    /\ NumRows(ctl.matv) > 0


\* The names and the matrix of this call after the post-processing of the
\* model builder's output, computed from the arguments.
BuiltPostProcessed ==
    LET b1 == IF ctl.comp_elastic_combine
              THEN [e_select |-> CombineNames(Built.e_select), matv |-> CombineColumns(Built.matv)]
              ELSE Built
    IN  IF ctl.linear_bg
        THEN [e_select |-> Append(b1.e_select, "const_bkg"), matv |-> AppendOnes(b1.matv)]
        ELSE b1

\* The energy-cut cube of this call, computed from the arguments.
CutOfInput ==
    LET w == ctl.param.window
    IN  GetCuttedSpectrum(ctl.input_data.val, w.energy_bound_low, w.energy_bound_high,
                          w.e_offset, w.e_linear).data

\* The single-spectrum NNLS result computed directly on the cut spectrum of
\* pixel (r, c) against the post-processed matrix: for name i the coefficient
\* times the column sum; the summed background and r_squared as fitted.
DirectTerm(r, c) ==
    [fn |-> "nnls", matv |-> BuiltPostProcessed.matv,
     y |-> [val |-> CutOfInput[r][c], den |-> 1], use_snip |-> ctl.use_snip]
DirectRaises ==
    Len(CutOfInput[1][1]) /= NumRows(BuiltPostProcessed.matv)

BinningDisabled == ctl.pixel_bin = 0 /\ ctl.bin_energy = 1 /\ ctl.raise_bg = 0

MatrixUsedForFit ==
    IF ctl.method = "nnls" THEN ctl.matv
    ELSE Scaled(ctl.matv, CubeRows(ctl.data) * CubeCols(ctl.data))

\* The block size of the spatial binning requested.
BinSizeOf(pixel_bin) == IF pixel_bin = 4 THEN 2 ELSE 3

SpatialBinningApplied == ctl_pc \in {"fit", "returned"} /\ ctl.pixel_bin \in {4, 9}

\* C17: when n x n spatial binning was applied (pixel_bin = 4 or 9), the
\* matrix used for fitting is the post-processed matrix of the model builder
\* divided by the block pixel count n*n.
C17_MatrixDividedByBlockCount ==
    SpatialBinningApplied =>
        LET n == BinSizeOf(ctl.pixel_bin)
        IN  /\ MatrixUsedForFit.val = BuiltPostProcessed.matv.val
            /\ MatrixUsedForFit.den = n * n

\* C17 witness: a cube of 4 x 2 pixels was binned 2 x 2 into 2 x 1 pixels
\* and the nnls fit is about to run with the matrix divided by 2.
C17_Witness ==
    /\ ctl_pc = "fit"
    /\ ctl.pixel_bin = 4 /\ ctl.method = "nnls"
    /\ Len(ctl.input_data.val) = 4 /\ Len(ctl.input_data.val[1]) = 2
    /\ CubeRows(ctl.data) = 2 /\ CubeCols(ctl.data) = 1
    /\ ctl.matv.den = 2

\* What the code does instead: whether or not the cube was binned, the
\* matrix is divided by the number of pixels of the cube that is fitted,
\* once for 'nnls' and twice for the nonlinear fit.
MatrixDividedByPixelCount ==
    ctl_pc \in {"fit", "returned"} =>
        LET pixels == CubeRows(ctl.data) * CubeCols(ctl.data)
        IN  /\ MatrixUsedForFit.val = BuiltPostProcessed.matv.val
            /\ MatrixUsedForFit.den = IF ctl.method = "nnls" THEN pixels ELSE pixels * pixels

\* C28: the cube the caller passed holds, at every point of the call and
\* after it, for every option combination (raise_bg > 0, spatial binning and
\* energy convolution included), what it held at the call: the cut, the
\* added constant, the binning and the convolution work on other arrays.
C28_InputCubeUnchanged ==
    ctl_pc /= "idle" =>
        /\ ctl.mem[1] = ctl.input_data.val
        /\ ctl.data_base /= None => ctl.data_base /= 1

\* C28 witness: a call with raise_bg > 0, spatial binning and energy
\* convolution has returned; the constant was added to the copy.
C28_Witness ==
    /\ ctl_pc = "returned"
    /\ ctl.raise_bg > 0 /\ ctl.pixel_bin = 4 /\ ctl.bin_energy = 2
    /\ ctl.mem[ctl.data_base] /= ctl.input_data.val
    /\ ctl.mem[1] = ctl.input_data.val

\* The matrix a pixel was fitted against, by the solver's term.
FittedAgainst(f) == RegMat(f.term.matv.val, f.term.matv.den * f.factor)

\* C29: for both methods, every pixel is fitted against one matrix, the
\* post-processed matrix of the model builder divided once by the pixel
\* count, and that matrix is calculation_info['regression_mat'].
C29_FitMatrixIsRegressionMat ==
    ctl_pc = "returned" =>
        LET info == ctl_ret.calculation_info
            d == info.data
            pixels == CubeRows(d) * CubeCols(d)
        IN  /\ info.regression_mat = Scaled(BuiltPostProcessed.matv, pixels)
            /\ \A r \in 1..Len(info.fitted) : \A c \in 1..Len(info.fitted[r]) :
                  FittedAgainst(info.fitted[r][c]) = info.regression_mat

\* C29 witness: a nonlinear fit of a cube of more than one pixel has
\* returned; its pixels were fitted against the matrix divided twice by the
\* pixel count, regression_mat is the matrix divided once.
C29_Witness ==
    /\ ctl_pc = "returned" /\ ctl.method = "nonlinear"
    /\ LET info == ctl_ret.calculation_info
           pixels == CubeRows(info.data) * CubeCols(info.data)
       IN  /\ pixels > 1
           /\ info.regression_mat.den = pixels
           /\ Len(info.fitted) > 0 /\ Len(info.fitted[1]) > 0
           /\ FittedAgainst(info.fitted[1][1]).den = pixels * pixels

\* The statement of C29 for method 'nnls'.
NnlsFitMatrixIsRegressionMat ==
    ctl.method = "nnls" => C29_FitMatrixIsRegressionMat

(***************************************************************************)
(*      save_fitdata_to_hdf (fit_spectrum.py), get_fit_data (fileio.py)    *)
(***************************************************************************)

\* Bounds of the file model.
MaxSaves == 2        \* calls of save_fitdata_to_hdf on the file
MaxHdfNames == 2     \* entries of a data_dict

\* A 2-D map of one row and two pixels, told by its first value.
MapValues == {1, 2}
FitMap(v) == <<<<v, v + 10>>>>

\* The mappings given as data_dict: from up to MaxHdfNames names to maps.
HdfNames == { CtlLines[i] : i \in 1..MaxHdfNames }
DataDicts == UNION { [S -> {FitMap(v) : v \in MapValues}] : S \in SUBSET HdfNames }

\* The enumerations of a finite set: the orders in which
\* six.iteritems(data_dict) can yield the keys.
Enumerations(S) ==
    IF S = {} THEN {<< >>} ELSE { t \in Orderings(S) : Len(t) = Cardinality(S) }

\* str(k) of a key; the keys of the maps saved are strings already.
Str(k) == k

\* The group at datapath: present or not, and its datasets by name.
NoGroup == [present |-> FALSE, datasets |-> << >>]
Group(datasets) == [present |-> TRUE, datasets |-> datasets]

\* What the file holds before the first save: no group; a group with a
\* dataset of counts; or that and the arrays of an earlier fit of three lines.
CountsOnly == [n \in {"counts"} |-> <<FitMap(7)>>]
EarlierFit ==
    [n \in {"counts", "xrf_fit", "xrf_fit_name"} |->
        IF n = "counts" THEN <<FitMap(7)>>
        ELSE IF n = "xrf_fit" THEN <<FitMap(3), FitMap(4), FitMap(5)>>
        ELSE <<"Zn_K", "Fe_K", "Cu_K">>]
PriorContents == {NoGroup, Group(CountsOnly), Group(EarlierFit)}

\* The pairs (data_saveas, dataname_saveas) the callers use: the defaults
\* and those of the error maps.
SaveTargets == {<<"xrf_fit", "xrf_fit_name">>, <<"xrf_fit_error", "xrf_fit_error_name">>}

\* create_dataset(name, data=v) on a group that keeps what it held under
\* name: the new entries follow the old ones.
Extended(datasets, name, v) ==
    [n \in (DOMAIN datasets) \cup {name} |->
        IF n = name THEN (IF name \in DOMAIN datasets THEN datasets[name] \o v ELSE v)
        ELSE datasets[n]]

\* del dataGrp[name] if present, then dataGrp.create_dataset(name, data=v).
Replaced(datasets, name, v) ==
    [n \in (DOMAIN datasets) \cup {name} |-> IF n = name THEN v ELSE datasets[n]]

\* get_fit_data(namelist, data): data_temp.update({namelist[i]: data[i, :, :]})
\* for i in range(len(namelist)).
GetFitData(namelist, data) ==
    [name \in {namelist[i] : i \in 1..Len(namelist)} |->
        LET last == CHOOSE i \in 1..Len(namelist) :
                       /\ namelist[i] = name
                       /\ \A j \in (i + 1)..Len(namelist) : namelist[j] /= name
        IN  data[last]]

NoSave == [data_dict |-> << >>, data_saveas |-> "", dataname_saveas |-> "",
           data |-> << >>, namelist |-> << >>, before |-> NoGroup]

HdfOnly == UNCHANGED <<poolVars, admmVars, normVars, gridVars, brVars, areaVars, binVars, cutVars, ctlVars, fpsVars, fmVars, sdVars, swVars, ppVars>>

InitHdf ==
    /\ hdf_pc = "nofile"
    /\ hdf_group = NoGroup
    /\ hdf = NoSave
    /\ hdf_saves = 0
    /\ hdf_read = << >>

\* The file as earlier processing left it.
HdfExisting(prior) ==
    /\ HdfOnly
    /\ hdf_pc = "nofile"
    /\ hdf_group' = prior
    /\ hdf_pc' = "idle"
    /\ UNCHANGED <<hdf, hdf_saves, hdf_read>>

\* save_fitdata_to_hdf(fpath, data_dict, datapath, data_saveas,
\* dataname_saveas) is called: f = h5py.File(fpath, 'a').
HdfSaveCall(data_dict, data_saveas, dataname_saveas) ==
    /\ HdfOnly
    /\ hdf_pc = "idle"
    /\ hdf_saves < MaxSaves
    /\ hdf' = [NoSave EXCEPT !.data_dict = data_dict, !.data_saveas = data_saveas,
                             !.dataname_saveas = dataname_saveas, !.before = hdf_group]
    /\ hdf_saves' = hdf_saves + 1
    /\ hdf_pc' = "group"
    /\ UNCHANGED <<hdf_group, hdf_read>>

\* try: dataGrp = f.create_group(datapath)
\* except ValueError: dataGrp = f[datapath]
HdfGroup ==
    /\ HdfOnly
    /\ hdf_pc = "group"
    /\ hdf_group' = IF hdf_group.present THEN hdf_group ELSE Group(<< >>)
    /\ hdf_pc' = "iterate"
    /\ UNCHANGED <<hdf, hdf_saves, hdf_read>>

\* for k, v in six.iteritems(data_dict): namelist.append(str(k));
\* data.append(v)
HdfIterate ==
    /\ HdfOnly
    /\ hdf_pc = "iterate"
    /\ \E keys \in Enumerations(DOMAIN hdf.data_dict) :
          hdf' = [hdf EXCEPT !.namelist = [i \in 1..Len(keys) |-> Str(keys[i])],
                             !.data = [i \in 1..Len(keys) |-> hdf.data_dict[keys[i]]]]
    /\ hdf_pc' = "data"
    /\ UNCHANGED <<hdf_group, hdf_saves, hdf_read>>

\* if data_saveas in dataGrp: del dataGrp[data_saveas]
\* data = np.array(data); dataGrp.create_dataset(data_saveas, data=data)
HdfWriteData ==
    /\ HdfOnly
    /\ hdf_pc = "data"
    /\ hdf_group' = Group(Replaced(hdf_group.datasets, hdf.data_saveas, hdf.data))
    /\ hdf_pc' = "names"
    /\ UNCHANGED <<hdf, hdf_saves, hdf_read>>

\* if dataname_saveas in dataGrp: del dataGrp[dataname_saveas]
\* dataGrp.create_dataset(dataname_saveas, data=namelist); f.close()
HdfWriteNames ==
    /\ HdfOnly
    /\ hdf_pc = "names"
    /\ hdf_group' = Group(Replaced(hdf_group.datasets, hdf.dataname_saveas, hdf.namelist))
    /\ hdf_pc' = "saved"
    /\ UNCHANGED <<hdf, hdf_saves, hdf_read>>

\* The arrays of the last save are read back:
\* get_fit_data(group[dataname_saveas].value, group[data_saveas].value).
HdfRead ==
    /\ HdfOnly
    /\ hdf_pc = "saved"
    /\ hdf_read' = GetFitData(hdf_group.datasets[hdf.dataname_saveas],
                              hdf_group.datasets[hdf.data_saveas])
    /\ hdf_pc' = "idle"
    /\ UNCHANGED <<hdf_group, hdf, hdf_saves>>

NextHdf ==
    \/ /\ hdf_pc = "nofile"
       /\ \E prior \in PriorContents : HdfExisting(prior)
    \/ /\ hdf_pc = "idle"
       /\ \E data_dict \in DataDicts, target \in SaveTargets :
             HdfSaveCall(data_dict, target[1], target[2])
    \/ HdfGroup
    \/ HdfIterate
    \/ HdfWriteData
    \/ HdfWriteNames
    \/ HdfRead

\* ---- claims about save_fitdata_to_hdf and get_fit_data ----

MaxChannelFiles == 2

\* A parameter set as json.load gives it: each parameter a dict with a
\* 'value'.  The sets differ in the incident energy and in the amplitude of
\* the elastic peak.
ParamSet(energy, amplitude) ==
    [coherent_sct_energy |-> [value |-> energy],
     coherent_sct_amplitude |-> [value |-> amplitude],
     e_offset |-> [value |-> 0]]
FileEnergies == {10, 12}
FileAmplitudes == {500, 600}
ParamFiles == { ParamSet(e, a) : e \in FileEnergies, a \in FileAmplitudes }
ParamFileLists == UNION { [1..n -> ParamFiles] : n \in 0..MaxChannelFiles }

\* The incident energies passed; None when the argument is left out.
IncidentEnergies == {11, 12}

\* "if incident_energy is not None:
\*      param['coherent_sct_amplitude']['value'] = incident_energy"
WithIncidentEnergy(param, incident_energy) ==
    IF incident_energy /= None
    THEN [param EXCEPT !.coherent_sct_amplitude.value = incident_energy]
    ELSE param

NoFps == [fit_channel_sum |-> TRUE, param_file |-> ParamSet(0, 0),
          fit_channel_each |-> FALSE, param_channel_list |-> << >>,
          incident_energy |-> None, i |-> 0]

FpsOnly == UNCHANGED <<poolVars, admmVars, normVars, gridVars, brVars, areaVars, binVars, cutVars, ctlVars, hdfVars, fmVars, sdVars, swVars, ppVars>>

InitFps ==
    /\ fps_pc = "idle"
    /\ fps = NoFps
    /\ fps_calls = << >>

\* fit_pixel_data_and_save(working_directory, file_name, fit_channel_sum,
\* param_file_name, fit_channel_each, param_channel_list, incident_energy,
\* ...) is called; the parameter files are given by their contents.
FpsCall(fit_channel_sum, param_file, fit_channel_each, param_channel_list, incident_energy) ==
    /\ FpsOnly
    /\ fps_pc = "idle"
    /\ fps' = [fit_channel_sum |-> fit_channel_sum, param_file |-> param_file,
               fit_channel_each |-> fit_channel_each,
               param_channel_list |-> param_channel_list,
               incident_energy |-> incident_energy, i |-> 0]
    /\ fps_calls' = << >>
    /\ fps_pc' = "sum"

\* if fit_channel_sum is True: load the parameter file, set the incident
\* energy, call the controller on the summed data, save under
\* 'xrfmap/detsum'.
FpsSum ==
    /\ FpsOnly
    /\ fps_pc = "sum"
    /\ IF fps.fit_channel_sum
       THEN LET param_sum == WithIncidentEnergy(fps.param_file, fps.incident_energy)
            IN  fps_calls' = Append(fps_calls, [data |-> "sum", param |-> param_sum,
                                                loaded |-> fps.param_file,
                                                inner_path |-> "xrfmap/detsum"])
       ELSE UNCHANGED fps_calls
    /\ fps_pc' = "each"
    /\ UNCHANGED fps

\* One pass of "for i in range(channel_num)" under fit_channel_each: load
\* the file of channel i, set the incident energy, call the controller on
\* the data of the channel, save under 'xrfmap/det<i+1>'.
FpsEach ==
    /\ FpsOnly
    /\ fps_pc = "each"
    /\ fps.fit_channel_each /\ fps.i < Len(fps.param_channel_list)
    /\ LET loaded == fps.param_channel_list[fps.i + 1]
           param_det == WithIncidentEnergy(loaded, fps.incident_energy)
       IN  fps_calls' = Append(fps_calls, [data |-> "ch", param |-> param_det,
                                           loaded |-> loaded,
                                           inner_path |-> "xrfmap/det"])
    /\ fps' = [fps EXCEPT !.i = fps.i + 1]
    /\ UNCHANGED fps_pc

\* The loop is over, or fit_channel_each is not True: the function returns.
FpsReturn ==
    /\ FpsOnly
    /\ fps_pc = "each"
    /\ ~(fps.fit_channel_each /\ fps.i < Len(fps.param_channel_list))
    /\ fps_pc' = "returned"
    /\ UNCHANGED <<fps, fps_calls>>

NextFps ==
    \/ /\ fps_pc = "idle"
       /\ \E fit_channel_sum \in BOOLEAN, param_file \in ParamFiles,
             fit_channel_each \in BOOLEAN, param_channel_list \in ParamFileLists,
             incident_energy \in IncidentEnergies \cup {None} :
             FpsCall(fit_channel_sum, param_file, fit_channel_each,
                     param_channel_list, incident_energy)
    \/ FpsSum
    \/ FpsEach
    \/ FpsReturn

\* ---- claims about fit_pixel_data_and_save ----

\* The parameters of a set other than the one named.
OtherParams(name) == {"coherent_sct_energy", "coherent_sct_amplitude", "e_offset"} \ {name}

\* C20: when incident_energy is passed, in every call of the controller,
\* for the summed data and for every channel, the coherent_sct_energy value
\* of the parameter set equals incident_energy and every other parameter is
\* as loaded from the file.
C20_IncidentEnergyUsed ==
    fps.incident_energy /= None =>
        \A k \in 1..Len(fps_calls) :
            /\ fps_calls[k].param.coherent_sct_energy.value = fps.incident_energy
            /\ \A p \in OtherParams("coherent_sct_energy") :
                  fps_calls[k].param[p] = fps_calls[k].loaded[p]

\* C20 witness: a call with incident_energy 11 and files of energy 12 has
\* run the summed fit and both channel fits; each got energy 12 and
\* amplitude 11.
C20_Witness ==
    /\ fps_pc = "returned"
    /\ fps.incident_energy = 11
    /\ Len(fps_calls) = 3
    /\ \A k \in 1..3 :
          /\ fps_calls[k].loaded.coherent_sct_energy.value = 12
          /\ fps_calls[k].param.coherent_sct_energy.value = 12
          /\ fps_calls[k].param.coherent_sct_amplitude.value = 11

\* What the code does: the amplitude of the elastic peak is overwritten and
\* every other parameter, the incident energy included, is as loaded.
IncidentEnergyWrittenToAmplitude ==
    \A k \in 1..Len(fps_calls) :
        /\ fps.incident_energy /= None =>
              fps_calls[k].param.coherent_sct_amplitude.value = fps.incident_energy
        /\ fps.incident_energy = None => fps_calls[k].param = fps_calls[k].loaded
        /\ \A p \in OtherParams("coherent_sct_amplitude") :
              fps_calls[k].param[p] = fps_calls[k].loaded[p]

(***************************************************************************)
(*                Fit1D.fit_multiple (fit_spectrum.py)                     *)
(*                                                                         *)
(* Fit1D holds five members fit_strategy1..5 and an OrderedDict            *)
(* all_strategy.  An assignment to fit_strategyN notifies update_strategyN *)
(* when the member gets its first value or a value that differs from the   *)
(* one it holds; the observer writes key 'strategyN' of all_strategy.  A   *)
(* new key of an OrderedDict goes to the end, an existing key keeps its    *)
(* place.  fit_multiple iterates over all_strategy and fits once for every *)
(* item with a non-zero value.  The fit itself is external: param_dict is  *)
(* the list of the strategies it was refined with.                         *)
(***************************************************************************)

MaxFits == 1                       \* calls of fit_multiple explored

StrategySteps == 1..5              \* fit_strategy1 .. fit_strategy5
StrategyChoices == {0, 1, 4}       \* 0 is no strategy, n is fit_strategy_list[n-1]

\* The position of key k in the ordered dict d, 0 when k is not a key.
KeyIndex(d, k) == IF \E i \in 1..Len(d) : d[i].k = k THEN CHOOSE i \in 1..Len(d) : d[i].k = k ELSE 0

\* OrderedDict.update({k: v}).
DictUpdate(d, k, v) == IF KeyIndex(d, k) = 0 THEN Append(d, [k |-> k, v |-> v]) ELSE [d EXCEPT ![KeyIndex(d, k)].v = v]

\* update_strategyN: self.all_strategy.update({'strategyN': change['value']}).
UpdateStrategy(d, n, value) == DictUpdate(d, n, value)

\* Whether an assignment of value to member n notifies its observer.
Notifies(slots, strategy, n, value) == n \notin slots \/ strategy[n] /= value

\* fit_data followed by update_param_with_result: the parameters refined
\* with strategy v.
Refined(params, v) == Append(params, v)

FmOnly == UNCHANGED <<poolVars, admmVars, normVars, gridVars, brVars, areaVars, binVars, cutVars, ctlVars, hdfVars, fpsVars, sdVars, swVars, ppVars>>

\* Fit1D.__init__: fit_strategy1 = 0, fit_strategy2 = 0, fit_strategy1 = 1,
\* fit_strategy2 = 4, each notifying its observer.
InitFm ==
    /\ fm_pc = "idle"
    /\ fit_strategy = [n \in StrategySteps |-> CASE n = 1 -> 1 [] n = 2 -> 4 [] OTHER -> 0]
    /\ fm_slots = {1, 2}
    /\ all_strategy = UpdateStrategy(UpdateStrategy(UpdateStrategy(UpdateStrategy(<< >>, 1, 0), 2, 0), 1, 1), 2, 4)
    /\ param_dict = << >>
    /\ fm_iter = 0
    /\ fm_log = << >>
    /\ fm_calls = 0

\* self.fit_strategyN = value, with the observer update_strategyN.
SetStrategy(n, value) ==
    /\ fm_pc \in {"idle", "returned"}
    /\ fm_calls < MaxFits
    /\ fit_strategy' = [fit_strategy EXCEPT ![n] = value]
    /\ fm_slots' = fm_slots \cup {n}
    /\ all_strategy' = IF Notifies(fm_slots, fit_strategy, n, value) THEN UpdateStrategy(all_strategy, n, value) ELSE all_strategy
    /\ UNCHANGED <<fm_pc, param_dict, fm_iter, fm_log, fm_calls>>
    /\ FmOnly

\* fit_multiple up to the head of the loop over all_strategy.
FmCall ==
    /\ fm_pc \in {"idle", "returned"}
    /\ fm_calls < MaxFits
    /\ fm_pc' = "loop"
    /\ fm_iter' = 1
    /\ fm_log' = << >>
    /\ fm_calls' = fm_calls + 1
    /\ UNCHANGED <<fit_strategy, fm_slots, all_strategy, param_dict>>
    /\ FmOnly

\* One iteration with a non-zero value: register the strategy, fit from
\* param_dict, update param_dict with the result.
FmFit ==
    /\ fm_pc = "loop"
    /\ fm_iter <= Len(all_strategy)
    /\ all_strategy[fm_iter].v /= 0
    /\ LET item == all_strategy[fm_iter]
           result == Refined(param_dict, item.v)
       IN  /\ fm_log' = Append(fm_log, [step |-> item.k, strategy |-> item.v, start |-> param_dict, result |-> result])
           /\ param_dict' = result
    /\ fm_iter' = fm_iter + 1
    /\ UNCHANGED <<fm_pc, fit_strategy, fm_slots, all_strategy, fm_calls>>
    /\ FmOnly

\* One iteration with value 0: nothing is done.
FmSkip ==
    /\ fm_pc = "loop"
    /\ fm_iter <= Len(all_strategy)
    /\ all_strategy[fm_iter].v = 0
    /\ fm_iter' = fm_iter + 1
    /\ UNCHANGED <<fm_pc, fit_strategy, fm_slots, all_strategy, param_dict, fm_log, fm_calls>>
    /\ FmOnly

\* The loop is exhausted: fit_multiple returns.
FmReturn ==
    /\ fm_pc = "loop"
    /\ fm_iter > Len(all_strategy)
    /\ fm_pc' = "returned"
    /\ UNCHANGED <<fit_strategy, fm_slots, all_strategy, param_dict, fm_iter, fm_log, fm_calls>>
    /\ FmOnly

NextFm ==
    \/ \E n \in StrategySteps, value \in StrategyChoices : SetStrategy(n, value)
    \/ FmCall
    \/ FmFit
    \/ FmSkip
    \/ FmReturn

\* The steps fitted by the last call, in the order they were fitted.
FittedSteps == [i \in 1..Len(fm_log) |-> fm_log[i].step]

\* The steps whose member holds a non-zero strategy.
NonZeroSteps == {n \in StrategySteps : fit_strategy[n] /= 0}

\* Every non-zero step was fitted exactly once with its strategy, no zero
\* step was fitted, and each fit started from the result of the one before.
EachNonZeroStepFittedOnce ==
    /\ {FittedSteps[i] : i \in 1..Len(fm_log)} = NonZeroSteps
    /\ Len(fm_log) = Cardinality(NonZeroSteps)
    /\ \A i \in 1..Len(fm_log) : fm_log[i].strategy = fit_strategy[fm_log[i].step]
    /\ \A i \in 1..Len(fm_log) : fm_log[i].result = Refined(fm_log[i].start, fm_log[i].strategy)
    /\ \A i \in 1..(Len(fm_log) - 1) : fm_log[i + 1].start = fm_log[i].result
    /\ Len(fm_log) > 0 => param_dict = fm_log[Len(fm_log)].result

\* C21: when fit_multiple has returned, the non-zero strategies were fitted
\* in increasing step order, each exactly once, zero steps skipped, every
\* fit starting from the parameters the previous one refined, in whatever
\* order the members fit_strategy1..5 were assigned.
C21_StrategiesInStepOrder ==
    fm_pc = "returned" =>
        /\ EachNonZeroStepFittedOnce
        /\ \A i, j \in 1..Len(fm_log) : i < j => FittedSteps[i] < FittedSteps[j]

\* C21 witness: fit_strategy5 was assigned before fit_strategy3, both
\* non-zero; fit_multiple has returned and fitted step 5 before step 3.
C21_Witness ==
    /\ fm_pc = "returned"
    /\ fit_strategy[3] /= 0 /\ fit_strategy[5] /= 0
    /\ KeyIndex(all_strategy, 5) < KeyIndex(all_strategy, 3)
    /\ \E i, j \in 1..Len(fm_log) : i < j /\ FittedSteps[i] = 5 /\ FittedSteps[j] = 3

\* What holds of every returned call: each non-zero step once, chained.
FittedOnceInDictOrder ==
    fm_pc = "returned" =>
        /\ EachNonZeroStepFittedOnce
        /\ \A i, j \in 1..Len(fm_log) : i < j => KeyIndex(all_strategy, FittedSteps[i]) < KeyIndex(all_strategy, FittedSteps[j])

(***************************************************************************)
(*                        save_data_to_hdf5                                *)
(*                                                                         *)
(* The function is called by test_hdf5_file_operations.py; its body is not *)
(* among the sources, so it is modelled from what the test and the         *)
(* specification say of it.  The directory holds the files fpath (name 0)  *)
(* and <base>_v<k>.h5 (name k); the content of a file is the set of the    *)
(* datasets saved to it.                                                   *)
(***************************************************************************)

MaxVersion == 3                    \* names <base>_v1.h5 .. <base>_v<MaxVersion>.h5
MaxSdCalls == 3                    \* calls of save_data_to_hdf5 explored
MaxSdData == 2                     \* distinct datasets saved

SdNames == 0..MaxVersion
SdData == 1..MaxSdData

NoFile == [exists |-> FALSE, data |-> {}]

Directories == {[n \in SdNames |-> IF n \in s THEN [exists |-> TRUE, data |-> {}] ELSE NoFile] : s \in SUBSET SdNames}

\* os.path.exists.
PathExists(files, n) == n \in DOMAIN files /\ files[n].exists

\* The first name <base>_v<n>.h5, n = 1, 2, ..., that does not exist.
RECURSIVE FpathNotExistingFrom(_, _)
FpathNotExistingFrom(files, n) == IF PathExists(files, n) THEN FpathNotExistingFrom(files, n + 1) ELSE n

\* The name is always <base>_v1.h5.
GetFpathFirstVersion(files) == 1

GetFpathNotExisting(files) == FpathNotExistingFrom(files, 1)

\* h5py.File(fpath, mode) followed by the writes: mode 'w' truncates, mode
\* 'a' creates the file or adds to it.
H5Write(files, n, mode, d) == [files EXCEPT ![n] = [exists |-> TRUE, data |-> IF mode = "w" \/ ~files[n].exists THEN {d} ELSE files[n].data \cup {d}]]

NoSd == [data |-> 0, fname_add_version |-> FALSE, file_overwrite_existing |-> FALSE, fpath |-> 0, mode |-> "a"]

SdOnly == UNCHANGED <<poolVars, admmVars, normVars, gridVars, brVars, areaVars, binVars, cutVars, ctlVars, hdfVars, fpsVars, fmVars, swVars, ppVars>>

InitSd ==
    /\ sd_pc = "idle"
    /\ sd = NoSd
    /\ sd_files = [n \in SdNames |-> NoFile]
    /\ sd_exc = "none"
    /\ sd_calls = << >>

\* The directory as the first call finds it.
SdExisting(dir) ==
    /\ sd_pc = "idle"
    /\ sd_calls = << >>
    /\ sd_files = [n \in SdNames |-> NoFile]
    /\ sd_files' = dir
    /\ UNCHANGED <<sd_pc, sd, sd_exc, sd_calls>>
    /\ SdOnly

\* save_data_to_hdf5 up to the opening of the file: the path and the mode
\* are chosen, or IOError is raised.
SdCall(d, add_version, overwrite) ==
    /\ sd_pc \in {"idle", "returned", "raised"}
    /\ Len(sd_calls) < MaxSdCalls
    /\ add_version /\ PathExists(sd_files, 0) => GetFpathNotExisting(sd_files) \in SdNames
    /\ LET exists == PathExists(sd_files, 0)
           fpath == IF exists /\ add_version THEN GetFpathNotExisting(sd_files) ELSE 0
           mode == IF exists /\ ~add_version /\ overwrite THEN "w" ELSE "a"
           raises == exists /\ ~add_version /\ ~overwrite
       IN  /\ sd' = [data |-> d, fname_add_version |-> add_version, file_overwrite_existing |-> overwrite, fpath |-> fpath, mode |-> mode]
           /\ sd_pc' = IF raises THEN "raised" ELSE "open"
           /\ sd_exc' = IF raises THEN "IOError: File already exists" ELSE "none"
    /\ sd_calls' = Append(sd_calls, [data |-> d, fname_add_version |-> add_version, file_overwrite_existing |-> overwrite, before |-> sd_files])
    /\ UNCHANGED sd_files
    /\ SdOnly

\* The file is opened and written; the function returns.
SdWrite ==
    /\ sd_pc = "open"
    /\ sd_files' = H5Write(sd_files, sd.fpath, sd.mode, sd.data)
    /\ sd_pc' = "returned"
    /\ UNCHANGED <<sd, sd_exc, sd_calls>>
    /\ SdOnly

NextSd ==
    \/ \E dir \in Directories : SdExisting(dir)
    \/ \E d \in SdData, add_version \in BOOLEAN, overwrite \in BOOLEAN : SdCall(d, add_version, overwrite)
    \/ SdWrite

\* The last call of save_data_to_hdf5 and the directory it found.
SdLast == sd_calls[Len(sd_calls)]

SdFinished == sd_pc \in {"returned", "raised"}

\* The names whose file the last call created or changed.
SdTouched == {n \in SdNames : sd_files[n] /= SdLast.before[n]}

\* C22: a call on an existing path with no option raises IOError and leaves
\* every file as it was; with file_overwrite_existing alone the file holds
\* the new data only; with fname_add_version the data go to the unused name
\* <base>_v<k>.h5 of least k and no other file changes.  An existing file
\* is replaced only by a call with file_overwrite_existing.
C22_ExistingFileKept ==
    (SdFinished /\ SdLast.before[0].exists) =>
        LET c == SdLast
        IN  /\ (~c.fname_add_version /\ ~c.file_overwrite_existing) => (sd_pc = "raised" /\ sd_exc = "IOError: File already exists" /\ SdTouched = {})
            /\ (~c.fname_add_version /\ c.file_overwrite_existing) => (sd_pc = "returned" /\ sd_files[0] = [exists |-> TRUE, data |-> {c.data}] /\ SdTouched \subseteq {0})
            /\ c.fname_add_version =>
                  /\ sd_pc = "returned"
                  /\ \E k \in SdNames \ {0} :
                        /\ ~c.before[k].exists
                        /\ \A j \in 1..(k - 1) : c.before[j].exists
                        /\ sd_files[k] = [exists |-> TRUE, data |-> {c.data}]
                        /\ SdTouched = {k}
            /\ \A n \in SdTouched : c.before[n].exists => c.file_overwrite_existing

\* C22 witness: the directory held fpath and <base>_v2.h5; an overwriting
\* save was followed by two saves with fname_add_version, which went to
\* <base>_v1.h5 and <base>_v3.h5.
C22_Witness ==
    /\ sd_pc = "returned"
    /\ Len(sd_calls) = 3
    /\ sd_calls[1].before[0].exists /\ ~sd_calls[1].before[1].exists /\ sd_calls[1].before[2].exists
    /\ sd_calls[1].file_overwrite_existing /\ ~sd_calls[1].fname_add_version
    /\ sd_calls[2].fname_add_version /\ sd_calls[3].fname_add_version
    /\ sd_files[0].exists /\ sd_files[1].exists /\ sd_files[2].exists /\ sd_files[3].exists
    /\ sd_files[1].data = {sd_calls[2].data} /\ sd_files[3].data = {sd_calls[3].data}

(***************************************************************************)
(*            SecondaryWindow.position_once (useful_widgets.py)            *)
(*                                                                         *)
(* The window has a position on the screen, changed by QWidget.move and by *)
(* the user dragging it, and the flag _never_positioned.                   *)
(***************************************************************************)

MaxWinCalls == 3                   \* calls of position_once explored

ScreenX == {0, 50}                 \* x of the parent window
ScreenY == {20}                    \* y of the parent window
ShiftsX == {30, -10}               \* x_shift (30 is the default)
ShiftsY == {30}                    \* y_shift (30 is the default)
UserPoints == {<<5, 5>>, <<80, 50>>}   \* where the user drags the window to

\* if self._never_positioned or force
ForcedOnly(never, force) == force

ShouldMove(never, force) == never \/ force

\* self.move(x + x_shift, y + y_shift)
MoveTarget(x, y, x_shift, y_shift) == <<x + x_shift, y + y_shift>>

SwOnly == UNCHANGED <<poolVars, admmVars, normVars, gridVars, brVars, areaVars, binVars, cutVars, ctlVars, hdfVars, fpsVars, fmVars, sdVars, ppVars>>

\* SecondaryWindow.__init__; the window is where the window system put it.
InitSw ==
    /\ never_positioned = TRUE
    /\ sw_pos = <<0, 0>>
    /\ sw_calls = << >>

\* position_once(x, y, x_shift=..., y_shift=..., force=...)
PositionOnce(x, y, x_shift, y_shift, force) ==
    /\ Len(sw_calls) < MaxWinCalls
    /\ LET moves == ShouldMove(never_positioned, force)
       IN  /\ never_positioned' = IF moves THEN FALSE ELSE never_positioned
           /\ sw_pos' = IF moves THEN MoveTarget(x, y, x_shift, y_shift) ELSE sw_pos
           /\ sw_calls' = Append(sw_calls, [x |-> x, y |-> y, x_shift |-> x_shift, y_shift |-> y_shift, force |-> force, before |-> sw_pos, after |-> sw_pos'])
    /\ SwOnly

\* The user drags the window.
UserMove(p) ==
    /\ Len(sw_calls) < MaxWinCalls
    /\ sw_pos /= p
    /\ sw_pos' = p
    /\ UNCHANGED <<never_positioned, sw_calls>>
    /\ SwOnly

NextSw ==
    \/ \E x \in ScreenX, y \in ScreenY, x_shift \in ShiftsX, y_shift \in ShiftsY, force \in BOOLEAN : PositionOnce(x, y, x_shift, y_shift, force)
    \/ \E p \in UserPoints : UserMove(p)

\* C25: of the calls of position_once made on a window, the first one and
\* those with force=True put the window at (x + x_shift, y + y_shift);
\* every other call leaves the window where it was.
C25_MovedOnFirstOrForcedCallOnly ==
    \A i \in 1..Len(sw_calls) :
        LET c == sw_calls[i]
        IN  IF i = 1 \/ c.force
            THEN c.after = <<c.x + c.x_shift, c.y + c.y_shift>>
            ELSE c.after = c.before

\* C25 witness: the first call moved the window, the user dragged it away,
\* a call with force=False left it there and a call with force=True moved
\* it again.
C25_Witness ==
    /\ Len(sw_calls) = 3
    /\ ~sw_calls[1].force /\ sw_calls[1].after /= sw_calls[1].before
    /\ ~sw_calls[2].force /\ sw_calls[2].before \in UserPoints /\ sw_calls[2].after = sw_calls[2].before
    /\ sw_calls[2].after /= <<sw_calls[2].x + sw_calls[2].x_shift, sw_calls[2].y + sw_calls[2].y_shift>>
    /\ sw_calls[3].force /\ sw_calls[3].after /= sw_calls[3].before
    /\ sw_pos = sw_calls[3].after

(***************************************************************************)
(*     PreviewPlotCount.update_map_range (tab_wd_plots_preview.py)         *)
(*                                                                         *)
(* The slot reads the range of the dataset from gpc, sets the range of the *)
(* RangeManager widget self.range and stores the range in gpc.  The        *)
(* methods of RangeManager and of gpc it calls are not among the sources:  *)
(* the widget is modelled as holding the range set_range was last given    *)
(* (get_range returns it), gpc as holding the dataset range and the range  *)
(* set_preview_map_range was last given.  The selection of the widget is   *)
(* not part of the state; the handler of its change is, since it writes    *)
(* the range of gpc.  A number or None is the set {v} or {}.               *)
(***************************************************************************)

MaxMapCalls == 3                   \* calls of update_map_range explored

MapModes == {"reset", "update", "expand", "clear", "refresh"}
CountValues == {1, 2, 3}
SelectionValues == {1, 2}          \* limits the user selects

\* What gpc.get_dataset_preview_count_map_range() may return.
DatasetRanges == {[low |-> {r[1]}, high |-> {r[2]}] : r \in {q \in CountValues \X CountValues : q[1] < q[2]}} \cup {[low |-> {}, high |-> {}], [low |-> {}, high |-> {2}]}

Min2(a, b) == IF a <= b THEN a ELSE b
Max2(a, b) == IF a >= b THEN a ELSE b

\* mode not in ("reset", "update", "expand", "clear")
IncorrectMode(mode) == mode \notin {"reset", "update", "expand", "clear"}

\* (range_low is None) or (range_high is None) or mode == "clear"
NoDatasets(ds, mode) == ds.low = {} \/ ds.high = {} \/ mode = "clear"

NumberOf(o) == CHOOSE v \in o : TRUE

\* set_range(range_low, range_high) of the modes 'update' and 'reset'.
ReplacedRange(ds, old) == <<NumberOf(ds.low), NumberOf(ds.high)>>

\* The limits of the dataset, whatever the range held.
DatasetLimits(ds, old) == <<NumberOf(ds.low), NumberOf(ds.high)>>

\* range_low = min(range_low, range_low_old);
\* range_high = max(range_high, range_high_old)
ExpandedRange(ds, old) == <<Min2(NumberOf(ds.low), old[1]), Max2(NumberOf(ds.high), old[2])>>

\* The range the slot gives to self.range.set_range.
NewRange(ds, mode, old) == IF NoDatasets(ds, mode) THEN <<0, 1>> ELSE IF mode = "expand" THEN ExpandedRange(ds, old) ELSE ReplacedRange(ds, old)

PpOnly == UNCHANGED <<poolVars, admmVars, normVars, gridVars, brVars, areaVars, binVars, cutVars, ctlVars, hdfVars, fpsVars, fmVars, sdVars, swVars>>

NoMapCall == [mode |-> "none", dataset |-> [low |-> {}, high |-> {}], range_old |-> <<0, 1>>, range_new |-> <<0, 1>>, gpc_old |-> <<0, 1>>, gpc_new |-> <<0, 1>>]

\* The call is made in mode 'expand' with a dataset range available.
Expanding(mode, ds) == mode = "expand" /\ ds.low /= {} /\ ds.high /= {}

InitPp ==
    /\ widget_range = <<0, 1>>
    /\ gpc_map_range = <<0, 1>>
    /\ gpc_dataset_range = [low |-> {}, high |-> {}]
    /\ pp_last = NoMapCall
    /\ pp_run = << >>
    /\ pp_count = 0

\* A dataset is loaded, selected or removed.
DatasetChanged(ds) ==
    /\ pp_count < MaxMapCalls
    /\ ds /= gpc_dataset_range
    /\ gpc_dataset_range' = ds
    /\ UNCHANGED <<widget_range, gpc_map_range, pp_last, pp_run, pp_count>>
    /\ PpOnly

\* range_selection_changed(sel_low, sel_high): the user changed the
\* selection within the range of the widget.
RangeSelectionChanged(sel_low, sel_high) ==
    /\ pp_count < MaxMapCalls
    /\ widget_range[1] <= sel_low /\ sel_low <= sel_high /\ sel_high <= widget_range[2]
    /\ gpc_map_range /= <<sel_low, sel_high>>
    /\ gpc_map_range' = <<sel_low, sel_high>>
    /\ UNCHANGED <<widget_range, gpc_dataset_range, pp_last, pp_run, pp_count>>
    /\ PpOnly

\* update_map_range(mode)
UpdateMapRange(mode) ==
    /\ pp_count < MaxMapCalls
    /\ IF IncorrectMode(mode)
       THEN UNCHANGED <<widget_range, gpc_map_range>>
       ELSE LET new == NewRange(gpc_dataset_range, mode, widget_range)
            IN  /\ widget_range' = new
                /\ gpc_map_range' = new
    /\ pp_last' = [mode |-> mode, dataset |-> gpc_dataset_range, range_old |-> widget_range, range_new |-> widget_range', gpc_old |-> gpc_map_range, gpc_new |-> gpc_map_range']
    /\ pp_run' = IF Expanding(mode, gpc_dataset_range) THEN Append(pp_run, widget_range) ELSE << >>
    /\ pp_count' = pp_count + 1
    /\ UNCHANGED gpc_dataset_range
    /\ PpOnly

NextPp ==
    \/ \E ds \in DatasetRanges : DatasetChanged(ds)
    \/ \E sel_low \in SelectionValues, sel_high \in SelectionValues : RangeSelectionChanged(sel_low, sel_high)
    \/ \E mode \in MapModes : UpdateMapRange(mode)

IncorrectModeIgnored ==
    /\ pp_last.mode = "refresh"
    /\ gpc_dataset_range = [low |-> {2}, high |-> {3}]
    /\ widget_range = <<0, 1>>

(***************************************************************************)
(*                            Specifications                               *)
(***************************************************************************)

Init == InitPool /\ InitAdmm /\ InitNorm /\ InitGrid /\ InitBr /\ InitArea /\ InitBin /\ InitCut /\ InitCtl /\ InitHdf /\ InitFps /\ InitFm /\ InitSd /\ InitSw /\ InitPp

SpecPool == Init /\ [][NextPool]_vars

SpecAdmm == Init /\ [][NextAdmm]_vars

SpecNorm == Init /\ [][NextNorm]_vars

SpecGrid == Init /\ [][NextGrid]_vars

SpecBr == Init /\ [][NextBr]_vars

SpecArea == Init /\ [][NextArea]_vars

SpecBin == Init /\ [][NextBin]_vars

SpecCut == Init /\ [][NextCut]_vars

SpecCtl == Init /\ [][NextCtl]_vars

SpecHdf == Init /\ [][NextHdf]_vars

SpecFps == Init /\ [][NextFps]_vars

SpecFm == Init /\ [][NextFm]_vars

SpecSd == Init /\ [][NextSd]_vars

SpecSw == Init /\ [][NextSw]_vars

SpecPp == Init /\ [][NextPp]_vars

====
